---- MODULE Spec2Model ----
(***************************************************************************)
(* A model of the mini-framework: the virtual-DOM reconciler of            *)
(* Framework/VDom.js acting on a host tree whose nodes have identity, and  *)
(* the State container with the App wrapper that re-renders on setState.   *)
(*                                                                         *)
(* Representation                                                          *)
(*   - a JS string that is concatenated or compared as text (text nodes,   *)
(*     textContent) is the sequence of its characters;                     *)
(*   - a class string is the sequence of its space-separated tokens        *)
(*     (className "a b" is <<"a", "b">>, the empty string is <<>>);        *)
(*   - an attribute value and a tag are TLA+ strings;                      *)
(*   - a JS object with insertion-ordered keys (vnode.attrs) is a sequence *)
(*     of <<key, value>> pairs;                                            *)
(*   - a host node is a record carrying its identity in the field nid.     *)
(***************************************************************************)
EXTENDS Integers, Sequences, FiniteSets, TLC

VARIABLES
    \* ---- the host tree under the container handed to updateDom
    host,        \* container.childNodes, a sequence of host nodes
    nextNid,     \* the identity the next created host node gets
    passes,      \* number of updateDom passes run so far
    forest,      \* the forest of the last pass
    prevForest,  \* the forest of the pass before it
    preHost,     \* container.childNodes before the last pass
    ops,         \* the host mutations the last pass performed, in order
    keyed,       \* the updateTodoList calls of the last pass
    passPath,    \* how the last pass went: "none", "patch", "rebuild" or "raised"
    trail        \* the forests of all passes so far, in order

domVars == <<host, nextNid, passes, forest, prevForest, preHost, ops, keyed, passPath,
             trail>>

VARIABLES
    \* ---- the State container (globalStorage) and the App around it
    heap,            \* the state objects ever allocated; a reference is an index
    stateRef,        \* this.state: the reference of the current state object
    listeners,       \* this.listeners
    updateCallback,  \* this.updateCallback: "null" or "render"
    rootExists,      \* whether the document has an element for rootSelector
    rootElement,     \* App.rootElement: "null" or "root"
    renderFunction,  \* App.renderFunction: "null" or the name of the function
    isInitialized,   \* App.isInitialized
    routes,          \* Routing.js routes: the registered paths
    hash,            \* window.location.hash
    hashListeners,   \* number of hashchange listeners registered on window
    pendingHash,     \* number of hashchange events queued and not yet dispatched
    handed,          \* the references handed out to callers, with the way out
    reported,        \* number of console.error calls so far
    log,             \* what the last operation did, in order
    lastOp,          \* the last operation, its arguments and its result
    given,           \* the arguments of the last call of a vnode builder
    built,           \* what that call returned
    steps            \* number of operations run so far

appVars == <<heap, stateRef, listeners, updateCallback, rootExists, rootElement,
             renderFunction, isInitialized, routes, hash, hashListeners, pendingHash,
             handed, reported, log, lastOp, given, built, steps>>

vars == <<domVars, appVars>>

(***************************************************************************)
(* Bounds of the model.                                                    *)
(***************************************************************************)
MaxPasses == 2
MaxSteps == 4
MaxEditPasses == 3
MaxTodoSteps == 4
MaxTodoId == 2
MaxArgs == 2

(***************************************************************************)
(* Small helpers on sequences.                                             *)
(***************************************************************************)
Range(s) == {s[i] : i \in 1..Len(s)}

RECURSIVE Concat(_)
Concat(ss) == IF ss = <<>> THEN <<>> ELSE Head(ss) \o Concat(Tail(ss))

\* the sequence s without its i-th element
RemoveAt(s, i) == SubSeq(s, 1, i - 1) \o SubSeq(s, i + 1, Len(s))

\* the sequence s with x inserted so that it becomes the i-th element
InsertAt(s, i, x) == SubSeq(s, 1, i - 1) \o <<x>> \o SubSeq(s, i, Len(s))

\* the first index of s whose element satisfies nid = n, 0 when there is none
IndexOfNid(s, n) ==
    IF \E i \in 1..Len(s) : s[i].nid = n
    THEN CHOOSE i \in 1..Len(s) : s[i].nid = n /\ \A j \in 1..(i - 1) : s[j].nid # n
    ELSE 0

(***************************************************************************)
(* JavaScript values the code inspects.                                    *)
(***************************************************************************)
\* String.prototype.toLowerCase / toUpperCase on the tags of the model
toLowerCase(s) ==
    CASE s = "DIV" -> "div"
      [] s = "UL" -> "ul"
      [] s = "LI" -> "li"
      [] s = "LABEL" -> "label"
      [] s = "INPUT" -> "input"
      [] s = "SPAN" -> "span"
      [] s = "P" -> "p"
      [] s = "UNDEFINED" -> "undefined"
      [] OTHER -> s

toUpperCase(s) ==
    CASE s = "div" -> "DIV"
      [] s = "ul" -> "UL"
      [] s = "li" -> "LI"
      [] s = "label" -> "LABEL"
      [] s = "input" -> "INPUT"
      [] s = "span" -> "SPAN"
      [] s = "p" -> "P"
      [] s = "undefined" -> "UNDEFINED"
      [] OTHER -> s

\* key.startsWith('on') on the attribute keys of the model
startsWithOn(key) == key \in {"onclick", "ondblclick", "onkeydown", "onblur"}

\* str.includes('editing') on a class string: some token contains "editing"
includesEditing(cls) == \E i \in 1..Len(cls) : cls[i] \in {"editing", "not-editing"}

\* String(n) for the numbers of the model
Digits == <<"0", "1", "2", "3", "4", "5", "6", "7", "8", "9">>

RECURSIVE NumToString(_)
NumToString(n) ==
    IF n < 10 THEN <<Digits[n + 1]>>
    ELSE NumToString(n \div 10) \o <<Digits[(n % 10) + 1]>>

(***************************************************************************)
(* VNodes.  A string child is [typ |-> "string", val |-> chars], a number  *)
(* child [typ |-> "number", val |-> n], null [typ |-> "null"], an array     *)
(* argument [typ |-> "array", items |-> seq], an element                   *)
(* [typ |-> "object", tag, attrs, children].                               *)
(***************************************************************************)
Null == [typ |-> "null"]
Undefined == [typ |-> "undefined"]
Str(chars) == [typ |-> "string", val |-> chars]
Num(n) == [typ |-> "number", val |-> n]
Arr(items) == [typ |-> "array", items |-> items]
Fn(name) == [typ |-> "function", name |-> name]
StyleString(s) == [typ |-> "string", val |-> s]

\* a faulty flat: every level of nesting is removed
RECURSIVE flat_Deep(_)
flat_Deep(args) ==
    IF args = <<>> THEN <<>>
    ELSE (IF Head(args).typ = "array" THEN flat_Deep(Head(args).items) ELSE <<Head(args)>>)
         \o flat_Deep(Tail(args))

\* Array.prototype.flat(): one level of nesting is removed
RECURSIVE flat(_)
flat(args) ==
    IF args = <<>> THEN <<>>
    ELSE (IF Head(args).typ = "array" THEN Head(args).items ELSE <<Head(args)>>)
         \o flat(Tail(args))

\* .filter(child => child != null)
FilterNonNull(s) == SelectSeq(s, LAMBDA c : c.typ \notin {"null", "undefined"})

\* an attrs object literal with its keys in insertion order
Obj(pairs) == [typ |-> "object", pairs |-> pairs]

\* JS truthiness of a string, number, boolean, null or object
Truthy(v) ==
    CASE v.typ \in {"null", "undefined"} -> FALSE
      [] v.typ = "string" -> v.val # <<>>
      [] v.typ = "number" -> v.val # 0
      [] v.typ = "boolean" -> v.val
      [] OTHER -> TRUE

\* attrs || {} after the default attrs = {}: an omitted (undefined) attrs
\* and every falsy one give the empty object, an object gives its pairs and
\* any other truthy value is kept as it is
AttrsOrEmpty(attrs) ==
    IF Truthy(attrs) THEN (IF attrs.typ = "object" THEN attrs.pairs ELSE attrs) ELSE <<>>

\* createElement(tag, attrs = {}, ...children)
createElement(tag, attrs, children) ==
    [typ |-> "object",
     tag |-> tag,
     attrs |-> AttrsOrEmpty(attrs),
     children |-> FilterNonNull(flat(children))]

\* what a call that throws leaves instead of a value
Raised == [typ |-> "raised"]

\* createVirtualElement(tag, attrs = {}, textContent = "", children = []):
\* children.length throws on null
VirtualOf(tag, attrs, textContent, children) ==
    IF children.typ = "null" THEN Raised
    ELSE IF Truthy(textContent) /\ Len(children.items) = 0
    THEN createElement(tag, attrs, <<textContent>>)
    ELSE IF Len(children.items) > 0
    THEN createElement(tag, attrs, children.items)
    ELSE createElement(tag, attrs, <<>>)

createVirtualElement(tag, attrs, textContent, children) ==
    VirtualOf(tag, attrs,
              IF textContent.typ = "undefined" THEN Str(<<>>) ELSE textContent,
              IF children.typ = "undefined" THEN Arr(<<>>) ELSE children)

\* vnode.tag is not undefined: the value has the property
HasTag(vnode) == "tag" \in DOMAIN vnode

\* String(vnode.tag), as document.createElement(vnode.tag) converts it
TagString(vnode) == IF HasTag(vnode) THEN vnode.tag ELSE "undefined"

\* vnode.attrs has the key
HasAttr(attrs, key) == \E i \in 1..Len(attrs) : attrs[i][1] = key

\* vnode.attrs[key], for a key it has
Attr(attrs, key) == attrs[CHOOSE i \in 1..Len(attrs) : attrs[i][1] = key][2]

(***************************************************************************)
(* Host nodes.  An element is                                              *)
(*   [nid, tagName, cls, attrs, checked, value, listeners, kids]           *)
(* and a text node is [nid, text].  cls is className (the class            *)
(* attribute), attrs maps every other attribute set to its string,         *)
(* checked/value are the properties, listeners the addEventListener calls, *)
(* kids is childNodes.                                                      *)
(***************************************************************************)
IsElement(n) == "tagName" \in DOMAIN n

\* element.children: the element children only
Children(kids) == SelectSeq(kids, IsElement)

RECURSIVE textContent(_)
textContent(n) ==
    IF IsElement(n)
    THEN Concat([i \in 1..Len(n.kids) |-> textContent(n.kids[i])])
    ELSE n.text

\* the identities of a subtree, the node itself first (document order)
RECURSIVE Nids(_)
Nids(n) ==
    IF IsElement(n)
    THEN <<n.nid>> \o Concat([i \in 1..Len(n.kids) |-> Nids(n.kids[i])])
    ELSE <<n.nid>>

NidsOf(kids) == Concat([i \in 1..Len(kids) |-> Nids(kids[i])])

\* the descendants of a node in document order, the node itself excluded
RECURSIVE Descendants(_)
Descendants(n) ==
    IF IsElement(n)
    THEN Concat([i \in 1..Len(n.kids) |-> <<n.kids[i]>> \o Descendants(n.kids[i])])
    ELSE <<>>

\* element.getAttribute(key) is non-null
HasHostAttr(el, key) == key \in DOMAIN el.attrs

(***************************************************************************)
(* The context threaded through one pass: the next fresh identity, the     *)
(* host mutations performed so far, the updateTodoList calls made so far   *)
(* the callbacks deferred to a later turn and whether an exception was     *)
(* thrown (every step after it is skipped).  The operators below take      *)
(* and yield a record [el, ctx] (a host element and the context) or        *)
(* [kids, ctx] (a child list and the context).                             *)
(***************************************************************************)
NewCtx(n) == [next |-> n, ops |-> <<>>, keyed |-> <<>>, deferred |-> <<>>, raised |-> FALSE]

\* an exception was thrown and nothing has caught it
Raise(ctx) == [ctx EXCEPT !.raised = TRUE]

Did(ctx, op) == [ctx EXCEPT !.ops = Append(@, op)]

\* the context after a node of identity ctx.next was created
Created(ctx) == [Did(ctx, [op |-> "create", nid |-> ctx.next]) EXCEPT !.next = @ + 1]

\* String(v) as createTextNode and the textContent setter apply it
ObjectObject == <<"[", "o", "b", "j", "e", "c", "t", " ", "O", "b", "j", "e", "c", "t", "]">>

ToText(v) ==
    CASE v.typ = "string" -> v.val
      [] v.typ = "number" -> NumToString(v.val)
      [] OTHER -> ObjectObject

(***************************************************************************)
(* createRealNode: mount a vnode as a fresh host subtree.                  *)
(***************************************************************************)
\* document.createElement(tag) throws an InvalidCharacterError unless the
\* tag is a valid name: the empty string is none
ValidName(tag) == tag # ""

\* document.createElement(tag): a fresh element without attributes
NewElement(nid, tag) ==
    [nid |-> nid, tagName |-> toUpperCase(tag), cls |-> <<>>, attrs |-> <<>>,
     checked |-> FALSE, value |-> <<>>, listeners |-> <<>>, kids |-> <<>>]

\* element.setAttribute(key, value): the class attribute is className
setAttribute(el, key, value) ==
    IF key = "class" THEN [el EXCEPT !.cls = value]
    ELSE [el EXCEPT !.attrs = (key :> value) @@ @]

\* the body of the forEach over Object.keys(vnode.attrs) in createRealNode
\* (autofocus defers a focus call)
MountAttr(s, key, value) ==
    IF startsWithOn(key) /\ value.typ = "function"
    THEN [s EXCEPT !.el.listeners = Append(@, <<key, value.name>>)]
    ELSE IF key = "className"
    THEN [s EXCEPT !.el.cls = value]
    ELSE IF key = "style" /\ value.typ = "object"
    THEN [s EXCEPT !.el.attrs = ("style" :> value.css) @@ @]
    ELSE IF key = "checked"
    THEN [s EXCEPT !.el.checked = value]
    ELSE IF key = "value"
    THEN [s EXCEPT !.el.value = value]
    ELSE IF key = "autofocus"
    THEN IF Truthy(value)
         THEN [s EXCEPT !.ctx.deferred = Append(@, [fn |-> "focus", nid |-> s.el.nid])]
         ELSE s
    ELSE IF key = "style"
    THEN [s EXCEPT !.el = setAttribute(@, key, value.val)]
    ELSE [s EXCEPT !.el = setAttribute(@, key, value)]

RECURSIVE MountAttrs(_, _, _)
MountAttrs(s, attrs, i) ==
    IF i > Len(attrs) THEN s
    ELSE MountAttrs(MountAttr(s, attrs[i][1], attrs[i][2]), attrs, i + 1)

RECURSIVE createRealNode(_, _), MountEach(_, _, _)

\* parent.appendChild(node) for the node just mounted; when the mount threw
\* there is no node and nothing is appended
Mounted(c, r) ==
    IF r.ctx.raised THEN [kids |-> c.kids, ctx |-> r.ctx]
    ELSE [kids |-> Append(c.kids, r.el), ctx |-> r.ctx]

\* vnodes.forEach(child => parent.appendChild(createRealNode(child))) from
\* index i on, c holding the parent's child list
MountEach(vnodes, i, c) ==
    IF i > Len(vnodes) \/ c.ctx.raised THEN c
    ELSE MountEach(vnodes, i + 1, Mounted(c, createRealNode(vnodes[i], c.ctx)))

WithKids(el, c) == [el |-> [el EXCEPT !.kids = c.kids], ctx |-> c.ctx]

\* step 4 of createRealNode, on an element without children
MountChildren(s, children) ==
    WithKids(s.el, MountEach(children, 1, [kids |-> <<>>, ctx |-> s.ctx]))

createRealNode(vnode, ctx) ==
    IF vnode.typ \in {"string", "number"}
    THEN [el |-> [nid |-> ctx.next, text |-> ToText(vnode)], ctx |-> Created(ctx)]
    ELSE IF ~ValidName(TagString(vnode))
    THEN [el |-> Raised, ctx |-> Raise(ctx)]
    ELSE MountChildren(MountAttrs([el |-> NewElement(ctx.next, TagString(vnode)),
                                   ctx |-> Created(ctx)], vnode.attrs, 1),
                       vnode.children)

\* a cold mount of a forest into an empty container, identities from 1
ColdMount(f) == MountEach(SelectSeq(f, Truthy), 1, [kids |-> <<>>, ctx |-> NewCtx(1)]).kids

\* element.innerHTML = ''
Cleared(s) ==
    [el |-> [s.el EXCEPT !.kids = <<>>],
     ctx |-> Did(s.ctx, [op |-> "clear", nid |-> s.el.nid, removed |-> NidsOf(s.el.kids)])]

\* element.innerHTML = ''; children.forEach(child => appendChild(createRealNode(child)))
Rebuild(s, children) == MountChildren(Cleared(s), children)

(***************************************************************************)
(* The keyed item patch: updateTodoItem, updateTodoItemContent and the     *)
(* two searches of the item's vnode.                                       *)
(***************************************************************************)
\* the tree n with the node of identity nid replaced by m
RECURSIVE ReplaceNode(_, _, _)
ReplaceNode(n, nid, m) ==
    IF n.nid = nid THEN m
    ELSE IF IsElement(n)
    THEN [n EXCEPT !.kids = [i \in 1..Len(n.kids) |-> ReplaceNode(n.kids[i], nid, m)]]
    ELSE n

\* element.textContent = chars: every child goes, one text node comes
\* unless the string is empty
setTextContent(el, chars, ctx) ==
    [el |-> [el EXCEPT !.kids = IF chars = <<>> THEN <<>>
                                ELSE <<[nid |-> ctx.next, text |-> chars]>>],
     ctx |-> [Did(ctx, [op |-> "setText", nid |-> el.nid])
              EXCEPT !.next = IF chars = <<>> THEN @ ELSE @ + 1]]

RECURSIVE findLabelTextInVNode(_), FindLabelInChildren(_, _)

\* if (result) return result; otherwise the loop goes on
ResultOrNext(result, children, i) ==
    IF Truthy(result) THEN result ELSE FindLabelInChildren(children, i + 1)

FindLabelInChildren(children, i) ==
    IF i > Len(children) THEN Null
    ELSE IF children[i].typ = "object"
    THEN ResultOrNext(findLabelTextInVNode(children[i]), children, i)
    ELSE FindLabelInChildren(children, i + 1)

findLabelTextInVNode(vnode) ==
    IF vnode.tag = "label" /\ Len(vnode.children) > 0
    THEN vnode.children[1]
    ELSE FindLabelInChildren(vnode.children, 1)

\* the index of the first child that is an object, 0 when there is none
FirstObject(children) ==
    IF \E i \in 1..Len(children) : children[i].typ = "object"
    THEN CHOOSE i \in 1..Len(children) :
             /\ children[i].typ = "object"
             /\ \A k \in 1..(i - 1) : children[k].typ # "object"
    ELSE 0

\* the first object child decides: its result is never null
RECURSIVE findCheckboxStateInVNode(_)
findCheckboxStateInVNode(vnode) ==
    IF vnode.tag = "input" /\ HasAttr(vnode.attrs, "type")
       /\ Attr(vnode.attrs, "type") = "checkbox"
    THEN HasAttr(vnode.attrs, "checked") /\ Attr(vnode.attrs, "checked")
    ELSE IF FirstObject(vnode.children) # 0
    THEN findCheckboxStateInVNode(vnode.children[FirstObject(vnode.children)])
    ELSE FALSE

\* the first element of a sequence as a one-element sequence, or <<>>
First(found) == IF found = <<>> THEN <<>> ELSE <<Head(found)>>

IsLabel(n) == IsElement(n) /\ n.tagName = "LABEL"

IsToggle(n) == IsElement(n) /\ "toggle" \in Range(n.cls)

\* li.querySelector('label'): the first descendant element that is a label,
\* as a one-element sequence, or the empty sequence
QueryLabel(li) == First(SelectSeq(Descendants(li), IsLabel))

\* li.querySelector('.toggle')
QueryToggle(li) == First(SelectSeq(Descendants(li), IsToggle))

\* the subtree of s.el rooted at r.el.nid becomes r.el
Replaced(s, r) == [el |-> ReplaceNode(s.el, r.el.nid, r.el), ctx |-> r.ctx]

\* if (label && newLabelText && label.textContent !== newLabelText)
\*     label.textContent = newLabelText
PatchLabel(s, label, newLabelText) ==
    IF /\ label # <<>>
       /\ Truthy(newLabelText)
       /\ \/ newLabelText.typ # "string"
          \/ textContent(label[1]) # newLabelText.val
    THEN Replaced(s, setTextContent(label[1], ToText(newLabelText), s.ctx))
    ELSE s

\* if (checkbox && checkbox.checked !== newCheckedState)
\*     checkbox.checked = newCheckedState
PatchCheckbox(s, checkbox, newCheckedState) ==
    IF checkbox # <<>> /\ checkbox[1].checked # newCheckedState
    THEN [el |-> ReplaceNode(s.el, checkbox[1].nid,
                             [checkbox[1] EXCEPT !.checked = newCheckedState]),
          ctx |-> Did(s.ctx, [op |-> "setChecked", nid |-> checkbox[1].nid])]
    ELSE s

CheckboxStep(s, vli) ==
    PatchCheckbox(s, QueryToggle(s.el), findCheckboxStateInVNode(vli))

updateTodoItemContent(s, vli) ==
    CheckboxStep(PatchLabel(s, QueryLabel(s.el), findLabelTextInVNode(vli)), vli)

\* vli.attrs?.className || ''
ClassNameOrEmpty(vnode) ==
    IF vnode.typ = "object" /\ HasAttr(vnode.attrs, "className")
    THEN Attr(vnode.attrs, "className") ELSE <<>>

\* if (currentClassName !== newClassName) li.className = newClassName
WriteClass(s, newClassName) ==
    IF s.el.cls # newClassName
    THEN [el |-> [s.el EXCEPT !.cls = newClassName],
          ctx |-> Did(s.ctx, [op |-> "setClass", nid |-> s.el.nid])]
    ELSE s

\* requestAnimationFrame(() => focus and select the edit input), on entering
\* edit mode
FocusDeferred(s, isEditing) ==
    IF isEditing /\ ~s.ctx.raised
    THEN [s EXCEPT !.ctx.deferred = Append(@, [fn |-> "focusEdit", nid |-> s.el.nid])]
    ELSE s

\* a faulty ItemBody: the content is rebuilt whether or not the editing
\* state changed
ItemBody_AlwaysRebuild(s, wasEditing, isEditing, vli) ==
    FocusDeferred(Rebuild(s, vli.children), isEditing)

\* the part of updateTodoItem after the class write
ItemBody(s, wasEditing, isEditing, vli) ==
    IF wasEditing # isEditing
    THEN FocusDeferred(Rebuild(s, vli.children), isEditing)
    ELSE updateTodoItemContent(s, vli)

updateTodoItem(s, vli) ==
    ItemBody(WriteClass(s, ClassNameOrEmpty(vli)),
             includesEditing(s.el.cls), includesEditing(ClassNameOrEmpty(vli)), vli)

(***************************************************************************)
(* updateTodoList: the keyed-list patcher.                                 *)
(***************************************************************************)
\* li.getAttribute('data-id') is truthy: present and not the empty string
HostKeyed(li) == HasHostAttr(li, "data-id") /\ li.attrs["data-id"] # ""

\* vli.attrs?.['data-id'] is truthy
VKeyed(vli) ==
    /\ vli.typ = "object"
    /\ HasAttr(vli.attrs, "data-id")
    /\ Attr(vli.attrs, "data-id") # ""

\* a Map as a sequence of <<key, value>> in first-insertion order
MapHas(m, key) == \E i \in 1..Len(m) : m[i][1] = key

MapGet(m, key) == m[CHOOSE i \in 1..Len(m) : m[i][1] = key][2]

MapSet(m, key, value) ==
    IF MapHas(m, key)
    THEN [i \in 1..Len(m) |-> IF m[i][1] = key THEN <<key, value>> ELSE m[i]]
    ELSE Append(m, <<key, value>>)

\* existingById: data-id -> the identity of the li holding it
RECURSIVE ExistingById(_, _, _)
ExistingById(items, i, m) ==
    IF i > Len(items) THEN m
    ELSE ExistingById(items, i + 1,
             IF HostKeyed(items[i])
             THEN MapSet(m, items[i].attrs["data-id"], items[i].nid) ELSE m)

\* the keys of newById
NewKeys(newItems) ==
    {Attr(newItems[i].attrs, "data-id") : i \in {j \in 1..Len(newItems) : VKeyed(newItems[j])}}

\* the child list without the node of identity nid
Detach(kids, nid) ==
    IF IndexOfNid(kids, nid) = 0 THEN kids ELSE RemoveAt(kids, IndexOfNid(kids, nid))

\* ul.appendChild(li): li leaves its place and becomes the last child
appendChild(kids, li) == Append(Detach(kids, li.nid), li)

\* ul.insertBefore(li, ref): li leaves its place and lands before ref
insertBefore(kids, li, refNid) ==
    InsertAt(Detach(kids, li.nid), IndexOfNid(Detach(kids, li.nid), refNid), li)

\* li.remove()
remove(s, nid) ==
    [el |-> [s.el EXCEPT !.kids = Detach(@, nid)],
     ctx |-> Did(s.ctx, [op |-> "remove", nid |-> nid])]

\* existingById.forEach((li, id) => { if (!newById.has(id)) li.remove() })
RECURSIVE RemovePass(_, _, _, _)
RemovePass(s, existingById, newKeys, i) ==
    IF i > Len(existingById) THEN s
    ELSE IF existingById[i][1] \in newKeys
    THEN RemovePass(s, existingById, newKeys, i + 1)
    ELSE RemovePass(remove(s, existingById[i][2]), existingById, newKeys, i + 1)

\* a faulty PlaceAt: every placed node is appended
PlaceAt_Append(kids, li, index) == appendChild(kids, li)

\* if (index >= ul.children.length) ul.appendChild(li)
\* else ul.insertBefore(li, ul.children[index])
PlaceAt(kids, li, index) ==
    IF index >= Len(Children(kids))
    THEN appendChild(kids, li)
    ELSE insertBefore(kids, li, Children(kids)[index + 1].nid)

\* the child at position pos of s.el becomes r.el
InList(s, pos, r) == [el |-> [s.el EXCEPT !.kids[pos] = r.el], ctx |-> r.ctx]

\* updateTodoItem(existingLi, vli) on the child at position pos
UpdateExisting(s, pos, vli) ==
    InList(s, pos, updateTodoItem([el |-> s.el.kids[pos], ctx |-> s.ctx], vli))

\* const currentIndex = Array.from(ul.children).indexOf(existingLi);
\* if (currentIndex !== index) the li is placed at index
EnsurePosition(s, nid, index) ==
    IF ~s.ctx.raised /\ IndexOfNid(Children(s.el.kids), nid) - 1 # index
    THEN [el |-> [s.el EXCEPT !.kids =
                     PlaceAt(@, s.el.kids[IndexOfNid(s.el.kids, nid)], index)],
          ctx |-> Did(s.ctx, [op |-> "move", nid |-> nid])]
    ELSE s

\* the branch of the second forEach for an id found in existingById
Existing(s, nid, vli, index) ==
    EnsurePosition(UpdateExisting(s, IndexOfNid(s.el.kids, nid), vli), nid, index)

\* the branch for a new id: r is the freshly mounted li
InsertNew(s, r, index) ==
    IF r.ctx.raised THEN [el |-> s.el, ctx |-> r.ctx]
    ELSE [el |-> [s.el EXCEPT !.kids = PlaceAt(@, r.el, index)],
          ctx |-> Did(r.ctx, [op |-> "insert", nid |-> r.el.nid])]

\* a faulty UpsertPass: an item without a key is mounted like a new one
RECURSIVE UpsertPass_MountUnkeyed(_, _, _, _)
UpsertPass_MountUnkeyed(s, existingById, newItems, i) ==
    IF i > Len(newItems) THEN s
    ELSE IF VKeyed(newItems[i])
            /\ MapHas(existingById, Attr(newItems[i].attrs, "data-id"))
    THEN UpsertPass_MountUnkeyed(
             Existing(s, MapGet(existingById, Attr(newItems[i].attrs, "data-id")),
                      newItems[i], i - 1),
             existingById, newItems, i + 1)
    ELSE UpsertPass_MountUnkeyed(InsertNew(s, createRealNode(newItems[i], s.ctx), i - 1),
                                 existingById, newItems, i + 1)

\* newItems.forEach((vli, index) => ...)
RECURSIVE UpsertPass(_, _, _, _)
UpsertPass(s, existingById, newItems, i) ==
    IF i > Len(newItems) \/ s.ctx.raised THEN s
    ELSE IF ~VKeyed(newItems[i])
    THEN UpsertPass(s, existingById, newItems, i + 1)
    ELSE IF MapHas(existingById, Attr(newItems[i].attrs, "data-id"))
    THEN UpsertPass(Existing(s, MapGet(existingById, Attr(newItems[i].attrs, "data-id")),
                             newItems[i], i - 1),
                    existingById, newItems, i + 1)
    ELSE UpsertPass(InsertNew(s, createRealNode(newItems[i], s.ctx), i - 1),
                    existingById, newItems, i + 1)

\* the record of one updateTodoList call: the list, its children before,
\* the new virtual items and its children after
Keyed(ul, newItems, r) ==
    [r EXCEPT !.ctx.keyed = Append(@, [ul |-> ul.nid, before |-> ul.kids,
                                       new |-> newItems, after |-> r.el.kids])]

\* a faulty updateTodoList: the list is emptied and every item mounted afresh
updateTodoList_Remount(s, vnode) == Keyed(s.el, vnode.children, Rebuild(s, vnode.children))

updateTodoList(s, vnode) ==
    Keyed(s.el, vnode.children,
          UpsertPass(RemovePass(s, ExistingById(Children(s.el.kids), 1, <<>>),
                                NewKeys(vnode.children), 1),
                     ExistingById(Children(s.el.kids), 1, <<>>), vnode.children, 1))

(***************************************************************************)
(* updateElementInPlace and updateDom.                                     *)
(***************************************************************************)
\* a faulty PatchAttr: an event callback of the new vnode is bound too
PatchAttr_Rebind(s, key, value) ==
    IF startsWithOn(key)
    THEN (IF value.typ = "function"
          THEN [s EXCEPT !.el.listeners = Append(@, <<key, value.name>>)]
          ELSE s)
    ELSE IF key = "className"
    THEN WriteClass(s, value)
    ELSE IF key = "style" /\ value.typ = "string"
    THEN [el |-> setAttribute(s.el, "style", value.val),
          ctx |-> Did(s.ctx, [op |-> "setAttr", nid |-> s.el.nid])]
    ELSE s

\* the body of the forEach over Object.keys(vnode.attrs) when patching
PatchAttr(s, key, value) ==
    IF startsWithOn(key) THEN s
    ELSE IF key = "className"
    THEN WriteClass(s, value)
    ELSE IF key = "style" /\ value.typ = "string"
    THEN [el |-> setAttribute(s.el, "style", value.val),
          ctx |-> Did(s.ctx, [op |-> "setAttr", nid |-> s.el.nid])]
    ELSE s

\* a faulty PatchAttrs: the attributes the vnode does not name are dropped
\* from the host node at the end
RECURSIVE PatchAttrs_Prune(_, _, _)
PatchAttrs_Prune(s, attrs, i) ==
    IF i > Len(attrs)
    THEN [s EXCEPT !.el.attrs = [k \in {key \in DOMAIN @ : HasAttr(attrs, key)} |-> @[k]]]
    ELSE PatchAttrs_Prune(PatchAttr(s, attrs[i][1], attrs[i][2]), attrs, i + 1)

RECURSIVE PatchAttrs(_, _, _)
PatchAttrs(s, attrs, i) ==
    IF i > Len(attrs) THEN s
    ELSE PatchAttrs(PatchAttr(s, attrs[i][1], attrs[i][2]), attrs, i + 1)

RECURSIVE updateElementInPlace(_, _), PatchChildren(_, _, _, _)

\* element.replaceChild(createRealNode(childVNode), existingChild)
replaceChild(s, pos, existingChild, r) ==
    IF r.ctx.raised THEN [el |-> s.el, ctx |-> r.ctx]
    ELSE [el |-> [s.el EXCEPT !.kids[pos] = r.el],
          ctx |-> Did(r.ctx, [op |-> "replace", nid |-> existingChild.nid,
                              by |-> r.el.nid])]

\* a faulty PatchChild: the child is replaced whether or not its tag matches
PatchChild_AlwaysReplace(s, pos, existingChild, childVNode) ==
    replaceChild(s, pos, existingChild, createRealNode(childVNode, s.ctx))

\* the body of vnode.children.forEach((childVNode, index) => ...)
PatchChild(s, pos, existingChild, childVNode) ==
    IF /\ childVNode.typ = "object"
       /\ toLowerCase(existingChild.tagName) = toLowerCase(childVNode.tag)
    THEN InList(s, pos, updateElementInPlace([el |-> s.el.kids[pos], ctx |-> s.ctx],
                                             childVNode))
    ELSE replaceChild(s, pos, existingChild, createRealNode(childVNode, s.ctx))

\* vnode.children.forEach over the snapshot existingChildElements
PatchChildren(s, existingChildElements, children, i) ==
    IF i > Len(children) \/ s.ctx.raised THEN s
    ELSE PatchChildren(PatchChild(s, IndexOfNid(s.el.kids, existingChildElements[i].nid),
                                  existingChildElements[i], children[i]),
                       existingChildElements, children, i + 1)

\* the part of updateElementInPlace after the attributes
PatchContent(s, vnode) ==
    IF Len(vnode.children) = 1 /\ vnode.children[1].typ = "string"
    THEN IF textContent(s.el) # vnode.children[1].val
         THEN setTextContent(s.el, vnode.children[1].val, s.ctx)
         ELSE s
    ELSE IF Len(vnode.children) > 0
    THEN IF Len(Children(s.el.kids)) = Len(vnode.children)
         THEN PatchChildren(s, Children(s.el.kids), vnode.children, 1)
         ELSE Rebuild(s, vnode.children)
    ELSE s

updateElementInPlace(s, vnode) ==
    IF s.el.tagName = "UL" /\ "todo-list" \in Range(s.el.cls)
    THEN updateTodoList(s, vnode)
    ELSE PatchContent(PatchAttrs(s, vnode.attrs, 1), vnode)

\* a faulty Compatible: the class strings are not compared
Compatible_TagOnly(existing, vnode) ==
    /\ Truthy(vnode)
    /\ toLowerCase(existing.tagName) = toLowerCase(vnode.tag)

\* the structural-compatibility test of updateDom on one index pair, for a
\* vnode whose tag can be read (Throws tells when it cannot)
Compatible(existing, vnode) ==
    /\ Truthy(vnode)
    /\ HasTag(vnode)
    /\ toLowerCase(existing.tagName) = toLowerCase(vnode.tag)
    /\ existing.cls = ClassNameOrEmpty(vnode)

\* vnode.tag.toLowerCase() throws a TypeError: the loop of the test reached
\* index i, every pair before it having passed, and the vnode there is
\* truthy and has no tag
ThrowsAt(existingChildren, vNodeArray, i) ==
    /\ Truthy(vNodeArray[i])
    /\ ~HasTag(vNodeArray[i])
    /\ \A k \in 1..(i - 1) : Compatible(existingChildren[k], vNodeArray[k])

Throws(existingChildren, vNodeArray) ==
    /\ Len(existingChildren) = Len(vNodeArray)
    /\ \E i \in 1..Len(vNodeArray) : ThrowsAt(existingChildren, vNodeArray, i)

canUpdateInPlace(existingChildren, vNodeArray) ==
    /\ Len(existingChildren) = Len(vNodeArray)
    /\ \A i \in 1..Len(vNodeArray) : Compatible(existingChildren[i], vNodeArray[i])

\* the top-level child at position pos becomes r.el
TopPatched(c, pos, r) == [kids |-> [c.kids EXCEPT ![pos] = r.el], ctx |-> r.ctx]

\* vNodeArray.forEach((vnode, index) => updateElementInPlace(existingChildren[index], vnode))
RECURSIVE PatchEach(_, _, _, _)
PatchEach(c, existingChildren, vNodeArray, i) ==
    IF i > Len(vNodeArray) \/ c.ctx.raised THEN c
    ELSE PatchEach(TopPatched(c, IndexOfNid(c.kids, existingChildren[i].nid),
                       updateElementInPlace(
                           [el |-> c.kids[IndexOfNid(c.kids, existingChildren[i].nid)],
                            ctx |-> c.ctx], vNodeArray[i])),
                   existingChildren, vNodeArray, i + 1)

Path(c, p) == [kids |-> c.kids, ctx |-> c.ctx, path |-> p]

\* updateDom(container, newVNodes) on c = the container's childNodes and
\* the context: the new childNodes, the context and the path taken
updateDom(c, vNodeArray) ==
    IF Throws(Children(c.kids), vNodeArray)
    THEN Path([kids |-> c.kids, ctx |-> Raise(c.ctx)], "raised")
    ELSE IF canUpdateInPlace(Children(c.kids), vNodeArray)
    THEN Path(PatchEach(c, Children(c.kids), vNodeArray, 1), "patch")
    ELSE Path(MountEach(SelectSeq(vNodeArray, Truthy), 1,
                        [kids |-> <<>>,
                         ctx |-> Did(c.ctx, [op |-> "clear", nid |-> 0,
                                             removed |-> NidsOf(c.kids)])]),
              "rebuild")

(***************************************************************************)
(* The forests handed to updateDom.  Items are built the way               *)
(* renderTodoItem builds them; classKey is the key the class list is given *)
(* under ("className" as in the framework's documentation, "class" as in   *)
(* the TodoApp).                                                           *)
(***************************************************************************)
Keys == {"1", "2", "3"}

\* the attribute pairs of an item: data-id only when the item has an id
ItemAttrs(ids, classKey, cls) ==
    [i \in 1..Len(ids) |-> <<"data-id", ids[i]>>] \o <<<<classKey, cls>>>>

renderTodoItem(ids, classKey, title, completed, isEditing) ==
    createElement("li",
        Obj(ItemAttrs(ids, classKey,
                      (IF completed THEN <<"completed">> ELSE <<>>)
                      \o (IF isEditing THEN <<"editing">> ELSE <<>>))),
        <<createElement("div", Obj(<<<<classKey, <<"view">>>>>>),
            <<createElement("input",
                  Obj(<<<<classKey, <<"toggle">>>>, <<"type", "checkbox">>,
                        <<"checked", completed>>, <<"onclick", Fn("toggleTodo")>>>>), <<>>),
              createElement("label", Obj(<<<<"ondblclick", Fn("startEdit")>>>>),
                            <<Str(title)>>)>>),
          IF isEditing
          THEN createElement("input",
                   Obj(<<<<classKey, <<"edit">>>>, <<"value", title>>,
                         <<"onblur", Fn("stopEdit")>>>>), <<>>)
          ELSE Null>>)

\* an item in its plain state: title "a", not completed, not editing
PlainItem(id) == renderTodoItem(<<id>>, "className", <<"a">>, FALSE, FALSE)

TodoList(classKey, items) ==
    <<createElement("ul", Obj(<<<<classKey, <<"todo-list">>>>>>), <<Arr(items)>>)>>

\* the sequences without repetition over a set
RECURSIVE Perms(_)
Perms(S) ==
    IF S = {} THEN {<<>>}
    ELSE UNION {{<<x>> \o p : p \in Perms(S \ {x})} : x \in S}

KeySeqs == UNION {Perms(T) : T \in SUBSET Keys}

\* every ordering of every subset of the keys, items plain
PlainLists == {TodoList("className", [i \in 1..Len(ks) |-> PlainItem(ks[i])]) : ks \in KeySeqs}

\* the list of one item followed by the plain item "2"
BeforeTwo(item) == TodoList("className", <<item, PlainItem("2")>>)

\* the list <<1, 2>> with one item changed, or with an item of no or empty id
VariantLists ==
    {BeforeTwo(renderTodoItem(<<"1">>, "className", <<"a">>, FALSE, TRUE)),
     BeforeTwo(renderTodoItem(<<"1">>, "className", <<"b">>, FALSE, FALSE)),
     BeforeTwo(renderTodoItem(<<"1">>, "className", <<"a">>, TRUE, FALSE)),
     BeforeTwo(renderTodoItem(<<>>, "className", <<"a">>, FALSE, FALSE)),
     BeforeTwo(renderTodoItem(<<"">>, "className", <<"a">>, FALSE, FALSE)),
     TodoList("className", <<PlainItem("2"),
                             renderTodoItem(<<"">>, "className", <<"b">>, FALSE, FALSE)>>),
     TodoList("class", <<renderTodoItem(<<"1">>, "class", <<"a">>, FALSE, FALSE)>>),
     TodoList("class", <<renderTodoItem(<<"1">>, "class", <<"a">>, TRUE, FALSE)>>)}

\* an item whose view holds the label before the toggle checkbox
LabelFirstItem(id, completed) ==
    createElement("li",
        Obj(ItemAttrs(<<id>>, "className", IF completed THEN <<"completed">> ELSE <<>>)),
        <<createElement("div", Obj(<<<<"className", <<"view">>>>>>),
            <<createElement("label", Obj(<<<<"ondblclick", Fn("startEdit")>>>>),
                            <<Str(<<"a">>)>>),
              createElement("input",
                  Obj(<<<<"className", <<"toggle">>>>, <<"type", "checkbox">>,
                        <<"checked", completed>>, <<"onclick", Fn("toggleTodo")>>>>),
                  <<>>)>>)>>)

\* the list of that one item, not completed or completed
LabelFirstLists == {TodoList("className", <<LabelFirstItem("1", c)>>) : c \in BOOLEAN}

Box(attrs, children) == createElement("div", Obj(attrs), children)

Span(chars) == createElement("span", Undefined, <<Str(chars)>>)

\* forests without a keyed list
PlainForests ==
    {<<Box(<<<<"className", <<"a">>>>, <<"id", "x">>>>, <<Str(<<"t">>)>>)>>,
     <<Box(<<<<"className", <<"a">>>>, <<"id", "y">>>>, <<Str(<<"t">>)>>)>>,
     <<Box(<<<<"className", <<"a">>>>>>, <<Str(<<"u">>)>>)>>,
     <<Box(<<<<"className", <<"a">>>>>>, <<>>)>>,
     <<Box(<<<<"className", <<"a">>>>>>, <<Span(<<"t">>), Span(<<"u">>)>>)>>,
     <<Box(<<<<"className", <<"a">>>>>>, <<Span(<<"t">>), Span(<<"u">>), Span(<<"v">>)>>)>>,
     <<Box(<<<<"className", <<"a">>>>>>, <<Span(<<"t">>), Str(<<"u">>)>>)>>,
     <<Box(<<<<"className", <<"a">>>>>>, <<Span(<<"t">>), createElement("p", Null, <<Num(7)>>)>>)>>,
     <<Box(<<<<"className", <<"a">>>>, <<"style", StyleString("display: none;")>>>>, <<Str(<<"t">>)>>)>>,
     <<Box(<<<<"className", <<"b">>>>>>, <<Str(<<"t">>)>>)>>,
     <<Box(<<<<"className", <<"a">>>>, <<"onclick", Fn("first")>>>>, <<Str(<<"t">>)>>)>>,
     <<Box(<<<<"className", <<"a">>>>, <<"onclick", Fn("second")>>>>, <<Str(<<"u">>)>>)>>,
     <<Box(<<<<"class", <<"a">>>>>>, <<Str(<<"t">>)>>)>>,
     <<createElement("DIV", Obj(<<<<"className", <<"a">>>>>>), <<Str(<<"t">>)>>)>>,
     <<Box(<<<<"className", <<"a">>>>>>, <<Str(<<"t">>)>>), Span(<<"u">>)>>,
     <<Box(<<<<"className", <<"a">>>>>>, <<Str(<<"t">>)>>), Null>>,
     <<>>}

Forests == PlainLists \cup VariantLists \cup LabelFirstLists \cup PlainForests

(***************************************************************************)
(* The State container.  A state object is a function from its keys to     *)
(* their values; an argument of setState is a typed JS value, an object    *)
(* being [typ |-> "object", map |-> function].                             *)
(***************************************************************************)
EmptyMap == [k \in {} |-> 0]

\* the typeof operator
typeof(v) ==
    CASE v.typ = "null" -> "object"
      [] OTHER -> v.typ

\* a faulty Spread: the partial replaces the state
Spread_Overwrite(a, b) == b

\* { ...a, ...b }
Spread(a, b) ==
    [k \in DOMAIN a \cup DOMAIN b |-> IF k \in DOMAIN b THEN b[k] ELSE a[k]]

\* the state of the container and the App around it while an operation runs:
\* the variables it may change, the reference it returns (ret), the number
\* of setState calls started in the operation (calls) and whether an
\* exception was thrown that nothing caught (no function of State.js or
\* App.js has a try: every step after the throw is skipped)
World ==
    [heap |-> heap, stateRef |-> stateRef, listeners |-> listeners,
     updateCallback |-> updateCallback, rootElement |-> rootElement,
     renderFunction |-> renderFunction, isInitialized |-> isInitialized,
     routes |-> routes, hash |-> hash, hashListeners |-> hashListeners,
     pendingHash |-> pendingHash, host |-> host, nextNid |-> nextNid,
     handed |-> handed, reported |-> reported, log |-> <<>>, ret |-> 0, calls |-> 0,
     thrown |-> FALSE]

Logged(W, e) == [W EXCEPT !.log = Append(@, e)]

\* the render function of the model: the forest drawn from a state
renderView(state) ==
    <<Box(<<<<"className", <<"view">>>>>>,
          <<Str(IF "a" \in DOMAIN state THEN NumToString(state.a) ELSE <<"-">>)>>),
      Box(<<<<"className", IF "filter" \in DOMAIN state THEN <<state.filter>> ELSE <<>>>>>>,
          <<Span(IF "b" \in DOMAIN state THEN NumToString(state.b) ELSE <<"-">>)>>)>>

\* the pass threw: the exception leaves updateDom and App.render
Failed(W, raised, call) ==
    IF raised
    THEN [Logged(W, [ev |-> "throw", call |-> call]) EXCEPT !.thrown = TRUE]
    ELSE W

\* the forest of renderView with a vnode of the invalid tag '' for second
BrokenView(state) == <<renderView(state)[1], createElement("", Null, <<>>)>>

\* the host tree and the identities after updateDom returned r; the event
\* names the setState call whose update callback asked for the pass (0 for
\* the pass init asks for itself)
Rendered(W, vdom, r, call) ==
    Failed([Logged(W, [ev |-> "render", call |-> call, forest |-> vdom, ops |-> r.ctx.ops,
                       host |-> r.kids])
            EXCEPT !.host = r.kids, !.nextNid = r.ctx.next],
           r.ctx.raised, call)

\* updateDom(this.rootElement, vdom) for the vdom the render function
\* returned, unless the function threw
Reconciled(W, vdom, call) ==
    IF W.thrown THEN W
    ELSE Rendered(W, vdom, updateDom([kids |-> W.host, ctx |-> NewCtx(W.nextNid)], vdom),
                  call)

\* the partial the re-entrant listener and the re-entrant render function
\* of the model write
ReenterPartial == [typ |-> "object", map |-> [k \in {"b"} |-> 2]]

RECURSIVE setState(_, _, _), NotifyFrom(_, _, _, _)

\* const vdom = this.renderFunction(), the world after the function ran:
\* "renderView" and "renderBroken" only read the state; "renderReenter"
\* first calls setState({b: 2}) unless b is 2 already and reads the state
\* then; "renderStale" reads the state first and then calls setState({b: 2})
\* unless b was 2
RenderFunctionRun(W) ==
    IF /\ W.renderFunction \in {"renderReenter", "renderStale"}
       /\ ~("b" \in DOMAIN W.heap[W.stateRef] /\ W.heap[W.stateRef].b = 2)
    THEN setState(W, ReenterPartial, TRUE)
    ELSE W

\* the vdom the function returns: entered is the state the container held
\* when the function was entered, left the state it held when the function
\* returned.  "renderBroken" gives a vnode an invalid tag when a is 2.
Vdom(renderFn, entered, left) ==
    IF renderFn = "renderStale" THEN renderView(entered)
    ELSE IF renderFn = "renderBroken" /\ "a" \in DOMAIN left /\ left.a = 2
    THEN BrokenView(left)
    ELSE renderView(left)

\* the state the container holds
Current(W) == W.heap[W.stateRef]

\* App.render
render(W, call) ==
    IF W.renderFunction # "null" /\ W.rootElement # "null"
    THEN Reconciled(RenderFunctionRun(W),
                    Vdom(W.renderFunction, Current(W), Current(RenderFunctionRun(W))),
                    call)
    ELSE W

\* listener(this.state) is entered: the argument is the reference this.state
\* holds at that moment
ListenerCalled(W, i, call) ==
    [Logged(W, [ev |-> "listener", call |-> call, index |-> i,
                arg |-> W.stateRef, seen |-> W.heap[W.stateRef]])
     EXCEPT !.handed = Append(@, [ref |-> W.stateRef, via |-> "listener"])]

\* the body of a listener: "observe" only looks at its argument, "reenter"
\* calls setState({b: 2}) unless b is 2 already
ListenerBody(W, listener) ==
    IF /\ listener = "reenter"
       /\ ~("b" \in DOMAIN W.heap[W.stateRef] /\ W.heap[W.stateRef].b = 2)
    THEN setState(W, ReenterPartial, TRUE)
    ELSE W

\* this.listeners.forEach(listener => listener(this.state)) from index i on,
\* for the n listeners the array held when the forEach began
NotifyFrom(W, i, n, call) ==
    IF i > n \/ W.thrown THEN W
    ELSE NotifyFrom(ListenerBody(ListenerCalled(W, i, call), W.listeners[i]), i + 1, n, call)

\* this.state = { ...this.state, ...newState }
Merge(W, call, partial, post) ==
    [Logged(W, [ev |-> "merge", call |-> call, partial |-> partial, post |-> post])
     EXCEPT !.heap = Append(@, post), !.stateRef = Len(W.heap) + 1, !.calls = call]

\* a faulty Update: the update callback is noted but its pass does not run
Update_Queued(W, call) ==
    IF W.updateCallback # "null"
    THEN Logged(W, [ev |-> "update", call |-> call])
    ELSE W

\* a faulty Update: an exception of the pass is caught and dropped
Update_Caught(W, call) ==
    IF W.updateCallback # "null" /\ ~W.thrown
    THEN [render(Logged(W, [ev |-> "update", call |-> call]), call) EXCEPT !.thrown = FALSE]
    ELSE W

\* if (this.updateCallback) this.updateCallback()
Update(W, call) ==
    IF W.updateCallback # "null" /\ ~W.thrown
    THEN render(Logged(W, [ev |-> "update", call |-> call]), call)
    ELSE W

\* a faulty Trigger: the update callback runs before the listeners
Trigger_UpdateFirst(W, triggerUpdate, call) ==
    IF triggerUpdate
    THEN NotifyFrom(Update(W, call), 1, Len(W.listeners), call)
    ELSE W

\* another faulty Trigger: triggerUpdate is ignored
Trigger_Always(W, triggerUpdate, call) ==
    Update(NotifyFrom(W, 1, Len(W.listeners), call), call)

\* if (triggerUpdate) { listeners, then the update callback }
Trigger(W, triggerUpdate, call) ==
    IF triggerUpdate
    THEN Update(NotifyFrom(W, 1, Len(W.listeners), call), call)
    ELSE W

\* return this.state
Return(W, call) ==
    IF W.thrown THEN W
    ELSE [Logged(W, [ev |-> "return", call |-> call, ret |-> W.stateRef])
          EXCEPT !.ret = W.stateRef]

\* a faulty IsStructured: typeof newState === 'object' alone
IsStructured_NullToo(newState) == typeof(newState) = "object"

\* typeof newState === 'object' && newState !== null
IsStructured(newState) == typeof(newState) = "object" /\ newState.typ # "null"

\* the keys and values a partial contributes to the spread (none for null)
Entries(newState) == IF newState.typ = "object" THEN newState.map ELSE EmptyMap

\* State.setState(newState, triggerUpdate = true)
setState(W, newState, triggerUpdate) ==
    IF IsStructured(newState)
    THEN Return(Trigger(Merge(W, W.calls + 1, Entries(newState),
                              Spread(W.heap[W.stateRef], Entries(newState))),
                        triggerUpdate, W.calls + 1),
                W.calls + 1)
    ELSE [W EXCEPT !.ret = W.stateRef]

\* a faulty getState: getState returns the state object itself
getState_Alias(W) == [W EXCEPT !.ret = W.stateRef]

\* State.getState: a fresh object with the keys and values of this.state
getState(W) ==
    [W EXCEPT !.heap = Append(@, Spread(EmptyMap, W.heap[W.stateRef])),
              !.ret = Len(W.heap) + 1]

\* State.subscribe
subscribe(W, listener) ==
    IF typeof(listener) = "function"
    THEN [W EXCEPT !.listeners = Append(@, listener.name)]
    ELSE W

\* App.setRenderFunction, with State.setUpdateCallback
setRenderFunction(W, renderFn) ==
    IF typeof(renderFn) = "function"
    THEN [W EXCEPT !.renderFunction = renderFn.name, !.updateCallback = "render"]
    ELSE W

(***************************************************************************)
(* Routing.js and App.init.  A route's handler is the TodoApp's setFilter  *)
(* for the filter of its path.                                             *)
(***************************************************************************)
Paths == {"/", "/active"}

FilterOf(path) == IF path = "/" THEN "all" ELSE "active"

\* url.startsWith('#') ? url.substring(1) : url, on the urls of the model
CleanUrl(url) ==
    CASE url = "#/" -> "/"
      [] url = "#/active" -> "/active"
      [] url = "#" -> ""
      [] OTHER -> url

\* '#' + cleanUrl
WithHash(cleanUrl) ==
    CASE cleanUrl = "/" -> "#/"
      [] cleanUrl = "/active" -> "#/active"
      [] cleanUrl = "" -> "#"
      [] OTHER -> cleanUrl

\* Routing.addRoute with a string path and a function handler
addRoute(W, path) == [W EXCEPT !.routes = @ \cup {path}]

\* routes.get(cleanUrl) || routes.get('/'): the path whose handler is found,
\* as a one-element sequence, or the empty sequence
Handler(registered, cleanUrl) ==
    IF cleanUrl \in registered THEN <<cleanUrl>>
    ELSE IF "/" \in registered THEN <<"/">> ELSE <<>>

\* if (handler) handler()
RunHandler(W, handler) ==
    IF handler # <<>>
    THEN setState(Logged(W, [ev |-> "route", path |-> handler[1]]),
                  [typ |-> "object", map |-> [k \in {"filter"} |-> FilterOf(handler[1])]],
                  TRUE)
    ELSE W

\* if (window.location.hash !== '#' + cleanUrl) window.location.hash = cleanUrl
SyncHash(W, cleanUrl) ==
    IF ~W.thrown /\ W.hash # WithHash(cleanUrl)
    THEN [W EXCEPT !.hash = WithHash(cleanUrl), !.pendingHash = @ + 1]
    ELSE W

\* Routing.executeRoute
executeRoute(W, url) ==
    SyncHash(RunHandler(W, Handler(W.routes, CleanUrl(url))), CleanUrl(url))

\* console.error(`Root element "${this.rootSelector}" not found`)
Reported(W) == [Logged(W, [ev |-> "error"]) EXCEPT !.reported = @ + 1]

\* this.isInitialized = true; this.render()
FirstRender(W) ==
    IF W.thrown THEN W ELSE render([W EXCEPT !.isInitialized = TRUE], 0)

\* App.init once the root element is found: the hashchange listener, the
\* initial route, isInitialized and the first render
Started(W) ==
    FirstRender(executeRoute([W EXCEPT !.hashListeners = @ + 1],
                             IF W.hash = "" THEN "#/" ELSE W.hash))

\* a faulty init: initialization goes on without a root element
init_Rootless(W, found) ==
    IF W.isInitialized THEN W
    ELSE Started([W EXCEPT !.rootElement = IF found THEN "root" ELSE "null"])

\* another faulty init: the isInitialized guard is missing
init_Again(W, found) ==
    IF ~found
    THEN Reported([W EXCEPT !.rootElement = "null"])
    ELSE Started([W EXCEPT !.rootElement = "root"])

\* App.init
init(W, found) ==
    IF W.isInitialized THEN W
    ELSE IF ~found
    THEN Reported([W EXCEPT !.rootElement = "null"])
    ELSE Started([W EXCEPT !.rootElement = "root"])

(***************************************************************************)
(* The container and the App as a state machine.                           *)
(***************************************************************************)
\* the arguments callers pass to setState
ValidPartials ==
    {[typ |-> "object", map |-> m] :
        m \in {EmptyMap, [k \in {"a"} |-> 1], [k \in {"a"} |-> 2], [k \in {"b"} |-> 2],
               [k \in {"a", "b"} |-> 1]}}

InvalidPartials ==
    {Null, Undefined, [typ |-> "number", val |-> 5], [typ |-> "string", val |-> <<"a">>],
     [typ |-> "boolean", val |-> TRUE]}

\* the arguments callers pass to subscribe and to setRenderFunction
ListenerArgs == {Fn("observe"), Fn("reenter"), Null}

RenderArgs == {Fn("renderView"), Fn("renderReenter"), Undefined}

NoArgs == [none |-> TRUE]

\* the state after construction: new State({}) and new App(rootSelector)
Unstarted ==
    /\ listeners = <<>>
    /\ updateCallback = "null"
    /\ rootElement = "null"
    /\ renderFunction = "null"
    /\ isInitialized = FALSE
    /\ routes = {}
    /\ hash = ""
    /\ hashListeners = 0
    /\ pendingHash = 0
    /\ handed = <<>>
    /\ reported = 0
    /\ log = <<>>
    /\ lastOp = [op |-> "none"]
    /\ given = [fn |-> "none"]
    /\ built = Undefined
    /\ steps = 0

AppIdle ==
    /\ heap = <<EmptyMap>>
    /\ stateRef = 1
    /\ Unstarted

\* an empty container that no pass has touched
DomIdle ==
    /\ host = <<>>
    /\ nextNid = 1
    /\ passes = 0
    /\ forest = <<>>
    /\ prevForest = <<>>
    /\ preHost = <<>>
    /\ ops = <<>>
    /\ keyed = <<>>
    /\ passPath = "none"
    /\ trail = <<>>

InitApp ==
    /\ AppIdle
    /\ DomIdle
    /\ rootExists \in BOOLEAN

\* what an operation found when it began
Before ==
    [state |-> heap[stateRef], ref |-> stateRef, host |-> host, heapLen |-> Len(heap),
     initialized |-> isInitialized, root |-> rootElement, hashListeners |-> hashListeners,
     hash |-> hash, pendingHash |-> pendingHash]

\* the variables take the values the operation left in W
Commit(W, name, args) ==
    /\ heap' = W.heap
    /\ stateRef' = W.stateRef
    /\ listeners' = W.listeners
    /\ updateCallback' = W.updateCallback
    /\ rootElement' = W.rootElement
    /\ renderFunction' = W.renderFunction
    /\ isInitialized' = W.isInitialized
    /\ routes' = W.routes
    /\ hash' = W.hash
    /\ hashListeners' = W.hashListeners
    /\ pendingHash' = W.pendingHash
    /\ host' = W.host
    /\ nextNid' = W.nextNid
    /\ handed' = W.handed
    /\ reported' = W.reported
    /\ log' = W.log
    /\ lastOp' = [op |-> name, args |-> args, before |-> Before, ret |-> W.ret,
                  thrown |-> W.thrown]
    /\ steps' = steps + 1
    /\ UNCHANGED <<rootExists, passes, forest, prevForest, preHost, ops, keyed, passPath,
                   trail, given, built>>

\* the caller holds the reference the operation returned, if it returned
HandOut(W, via) ==
    IF W.thrown THEN W ELSE [W EXCEPT !.handed = Append(@, [ref |-> W.ret, via |-> via])]

\* app.setState(newState, triggerUpdate)
SetState(newState, triggerUpdate) ==
    /\ steps < MaxSteps
    /\ Commit(HandOut(setState(World, newState, triggerUpdate), "setState"), "setState",
              [newState |-> newState, triggerUpdate |-> triggerUpdate])

\* app.getState()
GetState ==
    /\ steps < MaxSteps
    /\ Commit(HandOut(getState(World), "getState"), "getState", NoArgs)

\* globalStorage.subscribe(listener)
Subscribe(listener) ==
    /\ steps < MaxSteps
    /\ Commit(subscribe(World, listener), "subscribe", [listener |-> listener])

\* app.setRenderFunction(renderFn)
SetRenderFunction(renderFn) ==
    /\ steps < MaxSteps
    /\ Commit(setRenderFunction(World, renderFn), "setRenderFunction", [renderFn |-> renderFn])

\* app.addRoute(path, handler)
AddRoute(path) ==
    /\ steps < MaxSteps
    /\ Commit(addRoute(World, path), "addRoute", [path |-> path])

\* app.init()
AppInit ==
    /\ steps < MaxSteps
    /\ Commit(init(World, rootExists), "init", NoArgs)

\* the listeners init registered run executeRoute(window.location.hash)
Dispatch(W) == IF W.hashListeners > 0 THEN executeRoute(W, W.hash) ELSE W

\* the browser dispatches a queued hashchange event
HashChange ==
    /\ steps < MaxSteps
    /\ pendingHash > 0
    /\ Commit(Dispatch([World EXCEPT !.pendingHash = @ - 1]), "hashchange", NoArgs)

\* a caller writes a top-level key of an object the container handed out
CallerWrite(i, key, value) ==
    /\ steps < MaxSteps
    /\ Commit([World EXCEPT !.heap[handed[i].ref] = Spread(@, [k \in {key} |-> value])],
              "write", [ref |-> handed[i].ref, via |-> handed[i].via, key |-> key])

\* a caller deletes a top-level key of an object the container handed out
CallerDelete(i, key) ==
    /\ steps < MaxSteps
    /\ key \in DOMAIN heap[handed[i].ref]
    /\ Commit([World EXCEPT !.heap[handed[i].ref] = [k \in DOMAIN @ \ {key} |-> @[k]]],
              "delete", [ref |-> handed[i].ref, via |-> handed[i].via, key |-> key])

NextApp ==
    \/ \E p \in ValidPartials \cup InvalidPartials, t \in BOOLEAN : SetState(p, t)
    \/ GetState
    \/ \E l \in ListenerArgs : Subscribe(l)
    \/ \E f \in RenderArgs : SetRenderFunction(f)
    \/ \E path \in Paths : AddRoute(path)
    \/ AppInit
    \/ HashChange
    \/ \E i \in 1..Len(handed) : CallerWrite(i, "a", 9)
    \/ \E i \in 1..Len(handed) : CallerDelete(i, "a")

SpecApp == InitApp /\ [][NextApp]_vars

(***************************************************************************)
(* The App with render functions that call setState themselves or hand     *)
(* the host a vnode it cannot create.                                      *)
(***************************************************************************)
RenderFns == {Fn("renderView"), Fn("renderReenter"), Fn("renderStale"), Fn("renderBroken")}

RenderPartials ==
    {[typ |-> "object", map |-> m] :
        m \in {[k \in {"a"} |-> 1], [k \in {"a"} |-> 2], [k \in {"b"} |-> 2],
               [k \in {"a", "b"} |-> 1]}}

NextRender ==
    \/ \E p \in RenderPartials, t \in BOOLEAN : SetState(p, t)
    \/ \E l \in {Fn("observe"), Fn("reenter")} : Subscribe(l)
    \/ \E f \in RenderFns : SetRenderFunction(f)
    \/ AppInit

InitRender ==
    /\ AppIdle
    /\ DomIdle
    /\ rootExists = TRUE

SpecRender == InitRender /\ [][NextRender]_vars

(***************************************************************************)
(* The reconciler as a state machine: updateDom is called on one container *)
(* with one forest after another.                                          *)
(***************************************************************************)
InitDom ==
    /\ AppIdle
    /\ DomIdle
    /\ rootExists = TRUE

\* the variables after the pass that returned r
Pass(r, f) ==
    /\ host' = r.kids
    /\ nextNid' = r.ctx.next
    /\ ops' = r.ctx.ops
    /\ keyed' = r.ctx.keyed
    /\ passPath' = r.path
    /\ passes' = passes + 1
    /\ forest' = f
    /\ prevForest' = forest
    /\ preHost' = host
    /\ trail' = Append(trail, f)
    /\ UNCHANGED appVars

\* updateDom(container, f)
UpdateDom(f) ==
    /\ passes < MaxPasses
    /\ Pass(updateDom([kids |-> host, ctx |-> NewCtx(nextNid)], f), f)

NextDom == \E f \in Forests : UpdateDom(f)

SpecDom == InitDom /\ [][NextDom]_vars

(***************************************************************************)
(* The reconciler given forests with structurally unexpected vnodes: extra *)
(* or missing attributes, no children, no tag, a bare string.              *)
(***************************************************************************)
\* an object literal with attrs and children and no tag
Tagless(attrs, children) == [typ |-> "object", attrs |-> attrs, children |-> children]

LooseForests ==
    {<<>>,
     <<Box(<<<<"className", <<"a">>>>>>, <<Str(<<"t">>)>>)>>,
     <<Box(<<<<"className", <<"a">>>>, <<"id", "x">>>>, <<Str(<<"t">>)>>)>>,
     <<createElement("div", Null, <<Str(<<"t">>)>>)>>,
     <<Box(<<<<"className", <<"a">>>>>>, <<>>)>>,
     <<Tagless(<<<<"className", <<"a">>>>>>, <<Str(<<"t">>)>>)>>,
     <<Tagless(<<>>, <<>>)>>,
     <<Box(<<<<"className", <<"a">>>>>>, <<Str(<<"t">>)>>),
       Tagless(<<<<"className", <<"a">>>>>>, <<Str(<<"t">>)>>)>>,
     <<Box(<<<<"className", <<"b">>>>>>, <<Str(<<"t">>)>>),
       Tagless(<<<<"className", <<"a">>>>>>, <<Str(<<"t">>)>>)>>,
     <<Tagless(<<<<"className", <<"a">>>>>>, <<Str(<<"t">>)>>),
       Box(<<<<"className", <<"a">>>>>>, <<Str(<<"t">>)>>)>>,
     <<Null, Tagless(<<<<"className", <<"a">>>>>>, <<Str(<<"t">>)>>)>>,
     <<Str(<<"t">>)>>}

NextLoose == \E f \in LooseForests : UpdateDom(f)

SpecLoose == InitDom /\ [][NextLoose]_vars

(***************************************************************************)
(* The vnode builders called with arguments of every kind.                 *)
(***************************************************************************)
\* what is passed as a child: strings, numbers, false, null, undefined,
\* a vnode, and arrays of them, one nested in another
ChildArgs ==
    {Str(<<"a">>), Str(<<>>), Num(0), [typ |-> "boolean", val |-> FALSE], Null, Undefined,
     [typ |-> "object", tag |-> "p", attrs |-> <<>>, children |-> <<>>],
     Arr(<<>>), Arr(<<Null, Str(<<"b">>)>>),
     Arr(<<Arr(<<Str(<<"c">>), Null>>), Undefined, Num(1)>>)}

\* what is passed as attrs
AttrsArgs ==
    {Undefined, Null, Obj(<<>>), Obj(<<<<"id", "x">>>>), Num(0), Str(<<>>), Str(<<"s">>)}

\* the argument lists of up to MaxArgs children
ChildLists == UNION {[1..n -> ChildArgs] : n \in 0..MaxArgs}

\* createElement(tag, attrs, ...children); the builders keep no state, so
\* a behaviour is one call
Build(tag, attrs, children) ==
    /\ given.fn = "none"
    /\ given' = [fn |-> "createElement", tag |-> tag, attrs |-> attrs,
                 children |-> children]
    /\ built' = createElement(tag, attrs, children)
    /\ UNCHANGED <<domVars, heap, stateRef, listeners, updateCallback, rootExists,
                   rootElement, renderFunction, isInitialized, routes, hash,
                   hashListeners, pendingHash, handed, reported, log, lastOp, steps>>

\* createVirtualElement(tag, attrs, textContent, children)
BuildVirtual(tag, attrs, text, children) ==
    /\ given.fn = "none"
    /\ given' = [fn |-> "createVirtualElement", tag |-> tag, attrs |-> attrs,
                 textContent |-> text, children |-> children]
    /\ built' = createVirtualElement(tag, attrs, text, children)
    /\ UNCHANGED <<domVars, heap, stateRef, listeners, updateCallback, rootExists,
                   rootElement, renderFunction, isInitialized, routes, hash,
                   hashListeners, pendingHash, handed, reported, log, lastOp, steps>>

NextBuild ==
    \/ \E attrs \in AttrsArgs, children \in ChildLists : Build("div", attrs, children)
    \/ \E attrs \in {Undefined, Obj(<<<<"class", <<"view">>>>>>)},
          text \in {Undefined, Str(<<>>), Str(<<"a">>)},
          children \in {Undefined, Null} \cup {Arr(c) : c \in ChildLists} :
              BuildVirtual("li", attrs, text, children)

SpecBuild == InitDom /\ [][NextBuild]_vars

(***************************************************************************)
(* The TodoApp's todos: TodoApp/Utils.js on the state AppInstance.js       *)
(* starts with.                                                            *)
(***************************************************************************)
\* String.prototype.trim on strings of letters and spaces
RECURSIVE TrimStart(_)
TrimStart(chars) ==
    IF chars # <<>> /\ Head(chars) = " " THEN TrimStart(Tail(chars)) ELSE chars

Reverse(chars) == [i \in 1..Len(chars) |-> chars[Len(chars) + 1 - i]]

trim(chars) == Reverse(TrimStart(Reverse(TrimStart(chars))))

\* the state AppInstance.js sets when the module is loaded
InitialTodoState ==
    [todos |-> <<>>, filter |-> "all", nextId |-> 1, editingId |-> Null,
     focusEditTodo |-> Null]

\* a faulty WithNewTodo: nextId is written back as it was
WithNewTodo_NoAdvance(state, text) ==
    [k \in {"todos", "nextId"} |->
        IF k = "todos"
        THEN Append(state.todos,
                    [id |-> state.nextId, text |-> trim(text), completed |-> FALSE])
        ELSE state.nextId]

\* { todos: [...todos, newTodo], nextId: nextId + 1 }
WithNewTodo(state, text) ==
    [k \in {"todos", "nextId"} |->
        IF k = "todos"
        THEN Append(state.todos,
                    [id |-> state.nextId, text |-> trim(text), completed |-> FALSE])
        ELSE state.nextId + 1]

\* { todos: todos.map(...) } or { todos: todos.filter(...) }
WithTodos(todos) == [k \in {"todos"} |-> todos]

Toggled(todo, id) == IF todo.id = id THEN [todo EXCEPT !.completed = ~@] ELSE todo

Edited(todo, id, newText) == IF todo.id = id THEN [todo EXCEPT !.text = trim(newText)] ELSE todo

\* app.setState(partial) after const { todos, nextId } = app.getState():
\* W is the world after getState, whose copy of the state is W.heap[W.ret]
addTodo(W, text) ==
    setState(W, [typ |-> "object", map |-> WithNewTodo(W.heap[W.ret], text)], TRUE)

toggleTodo(W, id) ==
    setState(W, [typ |-> "object",
                 map |-> WithTodos([i \in 1..Len(W.heap[W.ret].todos) |->
                                       Toggled(W.heap[W.ret].todos[i], id)])], TRUE)

deleteTodo(W, id) ==
    setState(W, [typ |-> "object",
                 map |-> WithTodos(SelectSeq(W.heap[W.ret].todos, LAMBDA t : t.id # id))],
             TRUE)

editTodo(W, id, newText) ==
    setState(W, [typ |-> "object",
                 map |-> WithTodos([i \in 1..Len(W.heap[W.ret].todos) |->
                                       Edited(W.heap[W.ret].todos[i], id, newText)])], TRUE)

\* todos.every(todo => todo.completed)
AllCompleted(todos) == \A i \in 1..Len(todos) : todos[i].completed

toggleAll(W) ==
    setState(W, [typ |-> "object",
                 map |-> WithTodos([i \in 1..Len(W.heap[W.ret].todos) |->
                                       [W.heap[W.ret].todos[i] EXCEPT
                                           !.completed = ~AllCompleted(W.heap[W.ret].todos)]])],
             TRUE)

clearCompleted(W) ==
    setState(W, [typ |-> "object",
                 map |-> WithTodos(SelectSeq(W.heap[W.ret].todos,
                                             LAMBDA t : ~t.completed))], TRUE)

\* the texts typed: "milk", " milk " and "tea"
TodoTexts == {<<"m", "i", "l", "k">>, <<" ", "m", "i", "l", "k", " ">>, <<"t", "e", "a">>}

\* createApp("body") and the setState of AppInstance.js have run
InitTodo ==
    /\ heap = <<Spread(EmptyMap, InitialTodoState)>>
    /\ stateRef = 1
    /\ Unstarted
    /\ DomIdle
    /\ rootExists = TRUE

AddTodo(text) ==
    /\ steps < MaxTodoSteps
    /\ Commit(addTodo(getState(World), text), "addTodo", [text |-> text])

ToggleTodo(id) ==
    /\ steps < MaxTodoSteps
    /\ Commit(toggleTodo(getState(World), id), "toggleTodo", [id |-> id])

DeleteTodo(id) ==
    /\ steps < MaxTodoSteps
    /\ Commit(deleteTodo(getState(World), id), "deleteTodo", [id |-> id])

EditTodo(id, newText) ==
    /\ steps < MaxTodoSteps
    /\ Commit(editTodo(getState(World), id, newText), "editTodo",
              [id |-> id, text |-> newText])

ToggleAll ==
    /\ steps < MaxTodoSteps
    /\ Commit(toggleAll(getState(World)), "toggleAll", NoArgs)

ClearCompleted ==
    /\ steps < MaxTodoSteps
    /\ Commit(clearCompleted(getState(World)), "clearCompleted", NoArgs)

NextTodo ==
    \/ \E text \in TodoTexts : AddTodo(text)
    \/ \E id \in 1..MaxTodoId : ToggleTodo(id)
    \/ \E id \in 1..MaxTodoId : DeleteTodo(id)
    \/ \E id \in 1..MaxTodoId, text \in TodoTexts : EditTodo(id, text)
    \/ ToggleAll
    \/ ClearCompleted

SpecTodo == InitTodo /\ [][NextTodo]_vars

(***************************************************************************)
(* The keyed list of the TodoApp under edit: updateDom is called with the  *)
(* list of the items "5" and "6" as the application state changes (an item *)
(* enters or leaves edit mode, the other is toggled, relabelled, added,    *)
(* removed or filtered away).                                              *)
(***************************************************************************)
\* the todo "5", in edit mode or not
Five(editing) == [id |-> "5", title |-> <<"a">>, completed |-> FALSE, editing |-> editing]

\* the todo "6": plain, completed or relabelled
Six(variant) ==
    [id |-> "6", title |-> IF variant = "relabelled" THEN <<"b">> ELSE <<"a">>,
     completed |-> (variant = "completed"), editing |-> FALSE]

\* the visible todos the list is drawn from
EditLists ==
    UNION {{<<Five(e)>>, <<Five(e), Six(v)>>, <<Six("plain"), Five(e)>>} :
              e \in BOOLEAN, v \in {"plain", "completed", "relabelled"}}

\* (visibleTodos || []).map((todo) => renderTodoItem(todo)) in the list
ListOf(classKey, todos) ==
    TodoList(classKey,
             [i \in 1..Len(todos) |->
                 renderTodoItem(<<todos[i].id>>, classKey, todos[i].title,
                                todos[i].completed, todos[i].editing)])

\* the forest of the TodoApp's renderApp, cut down to the section, the main
\* and the list: every class is given under the key class
renderApp(visibleTodos) ==
    <<createElement("section", Obj(<<<<"class", <<"todoapp">>>>>>),
        <<createElement("main", Obj(<<<<"class", <<"main">>>>>>),
                        ListOf("class", visibleTodos))>>)>>

\* the forest drawn from the visible todos: the list alone with the class
\* under className, as the Documentation writes it, or the TodoApp's
EditForest(classKey, todos) ==
    IF classKey = "className" THEN ListOf("className", todos) ELSE renderApp(todos)

\* the forests passed
EditForests ==
    {EditForest("className", d) : d \in EditLists}
    \cup {EditForest("class", <<Five(TRUE), Six(v)>>) : v \in {"plain", "completed"}}

\* updateDom(container, f)
EditPass(f) ==
    /\ passes < MaxEditPasses
    /\ Pass(updateDom([kids |-> host, ctx |-> NewCtx(nextNid)], f), f)

NextEdit == \E f \in EditForests : EditPass(f)

SpecEdit == InitDom /\ [][NextEdit]_vars

(***************************************************************************)
(* Properties of the reconciler.                                           *)
(***************************************************************************)
\* what a host subtree looks like, identities and listeners aside: tags,
\* class strings, attributes, text and child order
RECURSIVE Shape(_)
Shape(n) ==
    IF IsElement(n)
    THEN [tagName |-> n.tagName, cls |-> n.cls, attrs |-> n.attrs,
          kids |-> [i \in 1..Len(n.kids) |-> Shape(n.kids[i])]]
    ELSE [text |-> n.text]

ShapeOf(kids) == [i \in 1..Len(kids) |-> Shape(kids[i])]

\* C1: after updateDom(container, forest) the container's host subtree has
\* the tags, class strings, attributes, text and child order that a cold
\* mount of the same forest produces, whichever path the pass took.
C1_HostMatchesForest ==
    passes > 0 => ShapeOf(host) = ShapeOf(ColdMount(forest))

\* C2: reconciling the same forest a second time, nothing having changed in
\* between, performs no host mutation.
C2_SecondPassIdle ==
    (passes >= 2 /\ forest = prevForest) => ops = <<>>

\* the element children that have a truthy data-id, in child order
KeyedItems(kids) == SelectSeq(Children(kids), HostKeyed)

\* their data-ids
HostKeySeq(kids) == [i \in 1..Len(KeyedItems(kids)) |-> KeyedItems(kids)[i].attrs["data-id"]]

\* the identities of the element children holding the key
HoldersOf(kids, key) ==
    {n.nid : n \in {m \in Range(Children(kids)) : HostKeyed(m) /\ m.attrs["data-id"] = key}}

\* C3: in every keyed-list patch, each key present both among the existing
\* host children and in the new forest is carried afterwards by the very
\* host node that carried it before, whatever else the forest reorders,
\* inserts or removes.
C3_KeyedIdentity ==
    \A i \in 1..Len(keyed) :
        \A key \in Range(HostKeySeq(keyed[i].before)) \cap NewKeys(keyed[i].new) :
            HoldersOf(keyed[i].after, key) = HoldersOf(keyed[i].before, key)

\* a patch of the list <<1, 2, 3>> into <<3, 1, 2>> has run and kept all
\* three nodes
C3_Witness ==
    \E i \in 1..Len(keyed) :
        /\ HostKeySeq(keyed[i].before) = <<"1", "2", "3">>
        /\ HostKeySeq(keyed[i].after) = <<"3", "1", "2">>
        /\ \A key \in Keys : HoldersOf(keyed[i].after, key) = HoldersOf(keyed[i].before, key)
        /\ \A key \in Keys : Cardinality(HoldersOf(keyed[i].after, key)) = 1

\* the data-id attribute of every child of a host list / of a new forest,
\* present on each and pairwise distinct
HostAllDistinct(kids) ==
    /\ \A i \in 1..Len(kids) : IsElement(kids[i]) /\ HasHostAttr(kids[i], "data-id")
    /\ \A i, j \in 1..Len(kids) :
           kids[i].attrs["data-id"] = kids[j].attrs["data-id"] => i = j

VAllDistinct(items) ==
    /\ \A i \in 1..Len(items) : items[i].typ = "object" /\ HasAttr(items[i].attrs, "data-id")
    /\ \A i, j \in 1..Len(items) :
           Attr(items[i].attrs, "data-id") = Attr(items[j].attrs, "data-id") => i = j

HostIds(kids) == [i \in 1..Len(kids) |-> kids[i].attrs["data-id"]]

VIds(items) == [i \in 1..Len(items) |-> Attr(items[i].attrs, "data-id")]

\* the keys of the host children after the patch are exactly the keys of
\* the new forest, in its order, one node each
OrderedAsForest(k) ==
    /\ \A j \in 1..Len(k.after) : IsElement(k.after[j])
    /\ HostAllDistinct(k.after)
    /\ HostIds(k.after) = VIds(k.new)

\* C4 as stated: whenever every existing child and every new item carries a
\* unique string key, the keys of the host children after the patch are
\* exactly the keys of the new forest, in its order.
C4_KeyOrderAnyString ==
    \A i \in 1..Len(keyed) :
        (HostAllDistinct(keyed[i].before) /\ VAllDistinct(keyed[i].new))
            => OrderedAsForest(keyed[i])

\* C4 amended: whenever every existing child and every new item carries a
\* unique non-empty string key, the keys of the host children after the
\* patch are exactly the keys of the new forest, in its order.
C4_KeyOrder ==
    \A i \in 1..Len(keyed) :
        (/\ HostAllDistinct(keyed[i].before) /\ VAllDistinct(keyed[i].new)
         /\ "" \notin Range(HostIds(keyed[i].before))
         /\ "" \notin Range(VIds(keyed[i].new)))
            => OrderedAsForest(keyed[i])

\* a patch that removes a key, inserts another and keeps a third has run
C4_Witness ==
    \E i \in 1..Len(keyed) :
        /\ HostAllDistinct(keyed[i].before)
        /\ VAllDistinct(keyed[i].new)
        /\ HostIds(keyed[i].before) = <<"1", "2">>
        /\ VIds(keyed[i].new) = <<"3", "2">>
        /\ HostIds(keyed[i].after) = <<"3", "2">>

(***************************************************************************)
(* Properties of the State container.  They are read off the last          *)
(* operation (lastOp), what it found (lastOp.before) and what it did, in   *)
(* order (log).                                                            *)
(***************************************************************************)
\* the positions of the log holding an event of the kind
PositionsOf(kind) == {p \in 1..Len(log) : log[p].ev = kind}

\* the positions of the events of the kind that belong to setState call c
PositionsIn(kind, c) == {p \in PositionsOf(kind) : log[p].call = c}

\* the setState calls the last operation started, the nested ones included
Calls == {log[p].call : p \in PositionsOf("merge")}

\* the merges of the last operation, in order
Merges == SelectSeq(log, LAMBDA e : e.ev = "merge")

\* the state setState call c produced
PostOf(c) == log[CHOOSE p \in PositionsIn("merge", c) : TRUE].post

\* the state the container held when the event at position p happened
CurrentAt(p) ==
    IF \E q \in PositionsOf("merge") : q < p
    THEN log[CHOOSE q \in PositionsOf("merge") :
                 q < p /\ \A r \in PositionsOf("merge") : r < p => r <= q].post
    ELSE lastOp.before.state

IsObjectArg(v) == v.typ = "object"

IsInvalidArg(v) == v.typ \in {"null", "undefined", "number", "string", "boolean"}

\* the last operation was setState with a valid partial
ValidSetState == lastOp.op = "setState" /\ IsObjectArg(lastOp.args.newState)

\* call c ran with triggerUpdate true: every call does, except the caller's
\* own when the caller passed false
Triggered(c) == ~(lastOp.op = "setState" /\ ~lastOp.args.triggerUpdate /\ c = 1)

\* post is pre with the keys of partial overwritten: the last written value
\* wins and the other keys keep theirs
MergedInto(pre, partial, post) ==
    /\ DOMAIN post = DOMAIN pre \cup DOMAIN partial
    /\ \A k \in DOMAIN partial : post[k] = partial[k]
    /\ \A k \in DOMAIN pre \ DOMAIN partial : post[k] = pre[k]

\* C5: after setState with a valid partial, whatever triggerUpdate is, the
\* state is the left-to-right shallow merge of the state before with every
\* partial merged since, the caller's first: per key the last written value
\* wins and the keys no partial names keep their value.
C5_ShallowMerge ==
    ValidSetState =>
        /\ Len(Merges) >= 1
        /\ Merges[1].partial = lastOp.args.newState.map
        /\ \A j \in 1..Len(Merges) :
               MergedInto(IF j = 1 THEN lastOp.before.state ELSE Merges[j - 1].post,
                          Merges[j].partial, Merges[j].post)
        /\ heap[stateRef] = Merges[Len(Merges)].post

\* setState({b: 2}, false) has run on the state {a: 1, ...} and a survived
C5_Witness ==
    /\ ValidSetState
    /\ ~lastOp.args.triggerUpdate
    /\ lastOp.before.state = [k \in {"a"} |-> 1]
    /\ lastOp.args.newState.map = [k \in {"b"} |-> 2]
    /\ heap[stateRef] = [k \in {"a", "b"} |-> IF k = "a" THEN 1 ELSE 2]

\* the listeners are notified for call c once per subscription, in
\* subscription order
NotifiedInOrder(c) ==
    LET notified == SelectSeq(log, LAMBDA e : e.ev = "listener" /\ e.call = c)
    IN [i \in 1..Len(notified) |-> notified[i].index] = [i \in 1..Len(listeners) |-> i]

\* the update callback, when one is registered, runs for call c exactly
\* once, and after every listener of call c
UpdatedOnceAfter(c) ==
    IF updateCallback # "null"
    THEN /\ Cardinality(PositionsIn("update", c)) = 1
         /\ \A u \in PositionsIn("update", c), p \in PositionsIn("listener", c) : p < u
    ELSE PositionsIn("update", c) = {}

\* C6 as stated: on a triggering setState every subscribed observer is
\* called once per subscription, in subscription order, each receiving the
\* state that call produced, and the update callback then runs exactly once,
\* after all of them.
C6_NotifyWithStateOfCall ==
    \A c \in Calls :
        Triggered(c) =>
            /\ NotifiedInOrder(c)
            /\ \A p \in PositionsIn("listener", c) : log[p].seen = PostOf(c)
            /\ UpdatedOnceAfter(c)

\* C6 amended: on a triggering setState every subscribed observer is called
\* once per subscription, in subscription order, each receiving the state
\* the container holds at the moment it is called (the state the call
\* produced unless an observer notified earlier has itself called
\* setState), and the update callback then runs exactly once, after all of
\* them.
C6_NotifyWithCurrentState ==
    \A c \in Calls :
        Triggered(c) =>
            /\ NotifiedInOrder(c)
            /\ \A p \in PositionsIn("listener", c) : log[p].seen = CurrentAt(p)
            /\ UpdatedOnceAfter(c)

\* a triggering setState has notified two observers and then run the update
\* callback, the first observer having called setState itself
C6_Witness ==
    /\ ValidSetState
    /\ lastOp.args.triggerUpdate
    /\ Len(listeners) = 2
    /\ updateCallback # "null"
    /\ Cardinality(Calls) = 2
    /\ \E p \in PositionsIn("listener", 1) : log[p].seen # PostOf(1)

\* C7: setState with null, undefined, a number, a string or a boolean is a
\* no-op: the state object and its contents are unchanged, no observer is
\* notified, the update callback does not run, the host tree is untouched
\* and the unchanged current state is what is returned.
C7_InvalidNoOp ==
    (lastOp.op = "setState" /\ IsInvalidArg(lastOp.args.newState)) =>
        /\ stateRef = lastOp.before.ref
        /\ heap[stateRef] = lastOp.before.state
        /\ Len(heap) = lastOp.before.heapLen
        /\ log = <<>>
        /\ host = lastOp.before.host
        /\ lastOp.ret = lastOp.before.ref

\* setState(null, true) has run with an observer subscribed and an update
\* callback registered
C7_Witness ==
    /\ lastOp.op = "setState"
    /\ lastOp.args.newState = Null
    /\ lastOp.args.triggerUpdate
    /\ listeners # <<>>
    /\ updateCallback # "null"
\* C8: setState(partial, false) merges the partial but notifies no
\* observer, does not run the update callback and leaves the host tree as
\* it was; every triggering state change runs the registered update
\* callback.
C8_SuppressedUpdate ==
    /\ (ValidSetState /\ ~lastOp.args.triggerUpdate) =>
           /\ MergedInto(lastOp.before.state, lastOp.args.newState.map, heap[stateRef])
           /\ PositionsOf("listener") = {}
           /\ PositionsOf("update") = {}
           /\ PositionsOf("render") = {}
           /\ host = lastOp.before.host
    /\ \A c \in Calls :
           (Triggered(c) /\ updateCallback # "null") => PositionsIn("update", c) # {}

\* setState({a: ...}, false) has changed the state of an initialised App
\* with an observer subscribed, and the rendered host tree still shows the
\* old state
C8_Witness ==
    /\ ValidSetState
    /\ ~lastOp.args.triggerUpdate
    /\ updateCallback # "null"
    /\ rootElement # "null"
    /\ listeners # <<>>
    /\ heap[stateRef] # lastOp.before.state
    /\ host # <<>>
    /\ host = lastOp.before.host

\* C9: the container never hands out its state object: no reference a
\* caller holds (from getState, from setState's return value, from an
\* observer's argument) is the internal state object, and no caller's write
\* to a top-level key of an object it obtained changes the state.
C9_NeverAliased ==
    /\ \A i \in 1..Len(handed) : handed[i].ref # stateRef
    /\ lastOp.op \in {"write", "delete"} => heap[stateRef] = lastOp.before.state

\* C10: getState returns a fresh object (distinct from the state object and
\* from every object returned before) with the contents of the state, and
\* adding, overwriting or deleting a top-level key of an object getState
\* returned leaves the state unchanged.
C10_GetStateCopies ==
    /\ lastOp.op = "getState" =>
           /\ lastOp.ret # stateRef
           /\ lastOp.ret > lastOp.before.heapLen
           /\ heap[lastOp.ret] = heap[stateRef]
           /\ stateRef = lastOp.before.ref
           /\ heap[stateRef] = lastOp.before.state
    /\ (lastOp.op \in {"write", "delete"} /\ lastOp.args.via = "getState") =>
           /\ stateRef = lastOp.before.ref
           /\ heap[stateRef] = lastOp.before.state

\* a caller has overwritten a key of an object getState returned: the
\* object changed, the state did not
C10_Witness ==
    /\ lastOp.op = "write"
    /\ lastOp.args.via = "getState"
    /\ "a" \in DOMAIN lastOp.before.state
    /\ heap[lastOp.args.ref] # heap[stateRef]
    /\ heap[stateRef] = lastOp.before.state

\* the events that belong to setState call c
EventsOf(c) ==
    {p \in 1..Len(log) :
        /\ log[p].ev \in {"merge", "listener", "update", "render", "return"}
        /\ log[p].call = c}

MergeAt(c) == CHOOSE p \in PositionsIn("merge", c) : TRUE

ReturnAt(c) == CHOOSE p \in PositionsIn("return", c) : TRUE

\* call c merged once, returned once, and everything it did lies between:
\* when it triggers, every listener was called, then the update callback
\* ran once, and the pass the callback asked for had reconciled the host
\* tree before c returned
RanToCompletion(c) ==
    /\ Cardinality(PositionsIn("merge", c)) = 1
    /\ Cardinality(PositionsIn("return", c)) = 1
    /\ \A p \in EventsOf(c) : MergeAt(c) <= p /\ p <= ReturnAt(c)
    /\ Triggered(c) =>
           /\ Cardinality(PositionsIn("listener", c)) = Len(listeners)
           /\ UpdatedOnceAfter(c)
           /\ (updateCallback # "null" /\ rootElement # "null") =>
                  /\ Cardinality(PositionsIn("render", c)) = 1
                  /\ \A u \in PositionsIn("update", c), r \in PositionsIn("render", c) :
                         u < r
    /\ ~Triggered(c) => EventsOf(c) = {MergeAt(c), ReturnAt(c)}

\* call d, begun after call c, either began after c returned or ran inside
\* c from its merge to its return with no step of c in between
NestedOrAfter(c, d) ==
    \/ ReturnAt(c) < MergeAt(d)
    \/ /\ ReturnAt(d) < ReturnAt(c)
       /\ \A p \in EventsOf(c) : ~(MergeAt(d) < p /\ p < ReturnAt(d))

\* the last pass of the operation left the host tree as it is now, and it
\* reconciled the forest drawn from the state as it is now
LastPassCurrent ==
    \A r \in PositionsOf("render") :
        (\A q \in PositionsOf("render") : q <= r) =>
            /\ log[r].host = host
            /\ log[r].forest = renderView(heap[stateRef])

\* C11: every triggering setState call, the caller's own or one made from
\* a listener or from the render function, merges, notifies the listeners,
\* runs the update callback and reconciles the host tree before it returns;
\* a nested call has returned, its pass done, before the call around it
\* takes its next step; and when the caller's setState returns nothing is
\* left to do: its return is the last event and the host tree is the one
\* the last pass made from the current state.
C11_RunToCompletion ==
    /\ \A c \in Calls : RanToCompletion(c)
    /\ \A c \in Calls, d \in Calls : c < d => NestedOrAfter(c, d)
    /\ (ValidSetState /\ lastOp.args.triggerUpdate) =>
           /\ log[Len(log)] = [ev |-> "return", call |-> 1, ret |-> stateRef]
           /\ (updateCallback # "null" /\ rootElement # "null") => LastPassCurrent

\* a setState whose pass called a render function that called setState
\* again, with a listener subscribed: the nested call ran between the outer
\* call's update callback and the end of the outer call's pass
C11_Witness ==
    /\ ValidSetState
    /\ renderFunction = "renderReenter"
    /\ listeners # <<>>
    /\ host # <<>>
    /\ Calls = {1, 2}
    /\ \E u \in PositionsIn("update", 1), r \in PositionsIn("render", 1) :
           u < MergeAt(2) /\ ReturnAt(2) < r
    /\ PositionsIn("render", 2) # {}

(***************************************************************************)
(* Properties of the keyed list under edit.                                *)
(***************************************************************************)
\* the todos with the editing flag of the i-th flipped
Flipped(todos, i) == [todos EXCEPT ![i].editing = ~@]

\* the last pass patched the list drawn from todos into the list drawn from
\* the same todos with the i-th entering or leaving edit mode
EditingFlipped(todos, i) ==
    /\ passes >= 2
    /\ prevForest = ListOf("className", todos)
    /\ forest = ListOf("className", Flipped(todos, i))

\* the host nodes the last pass wrote to, moved, removed, replaced or
\* emptied, and the ones it created
Touched == {ops[j].nid : j \in {q \in 1..Len(ops) : ops[q].op # "create"}}

CreatedNow == {ops[j].nid : j \in {q \in 1..Len(ops) : ops[q].op = "create"}}

\* the identities of a host node and of everything below it
Subtree(n) == Range(Nids(n))

\* the keyed patch k emptied the i-th item once and mounted its new
\* children afresh: the item's node stays, none of its old descendants does,
\* and the pass emptied nothing else
RebuiltOnce(k, i, vli) ==
    /\ k.after[i].nid = k.before[i].nid
    /\ SelectSeq(ops, LAMBDA o : o.op = "clear")
           = <<[op |-> "clear", nid |-> k.before[i].nid,
                removed |-> NidsOf(k.before[i].kids)]>>
    /\ Range(NidsOf(k.after[i].kids)) \cap Range(NidsOf(k.before[i].kids)) = {}
    /\ Range(NidsOf(k.after[i].kids)) = CreatedNow
    /\ ShapeOf(k.after[i].kids) = ShapeOf(ColdMount(<<vli>>)[1].kids)

\* the keyed patch k left every item but the i-th as it was, in its place,
\* and the pass wrote to, moved or replaced nothing in them
SiblingsUntouched(k, i) ==
    /\ Len(k.after) = Len(k.before)
    /\ \A j \in 1..Len(k.before) :
           j # i => /\ k.after[j] = k.before[j]
                    /\ Touched \cap Subtree(k.before[j]) = {}

\* C12: in a keyed list, a pass in which one item enters edit mode and a
\* pass in which it leaves it again, nothing else changing, each go through
\* the keyed-list patcher and rebuild that item's subtree exactly once,
\* with no host mutation (no write, no move, no replacement) on any sibling.
C12_EditingRebuildsOneItem ==
    \A todos \in EditLists :
        \A i \in 1..Len(todos) :
            EditingFlipped(todos, i) =>
                /\ passPath = "patch"
                /\ Len(keyed) = 1
                /\ RebuiltOnce(keyed[1], i, ListOf("className", Flipped(todos, i))[1].children[i])
                /\ SiblingsUntouched(keyed[1], i)

\* the list <<5, 6>> was mounted, item 5 entered edit mode in the second
\* pass and left it in the third, and item 6 is still the node first mounted
C12_Witness ==
    /\ trail = <<ListOf("className", <<Five(FALSE), Six("plain")>>),
                 ListOf("className", <<Five(TRUE), Six("plain")>>),
                 ListOf("className", <<Five(FALSE), Six("plain")>>)>>
    /\ Len(keyed) = 1
    /\ Cardinality(CreatedNow) > 0
    /\ keyed[1].after[2] = keyed[1].before[2]
    /\ keyed[1].after[1].nid = keyed[1].before[1].nid

(***************************************************************************)
(* Properties of patch-in-place and of the top-level decision.             *)
(***************************************************************************)
\* the top-level host node at position i was patched in place by the last
\* pass and is not the keyed-list container
PatchedPlain(i) ==
    /\ passPath = "patch"
    /\ i \in 1..Len(forest)
    /\ ~(preHost[i].tagName = "UL" /\ "todo-list" \in Range(preHost[i].cls))

\* the children of the host node were rebuilt from scratch: none of the
\* old child nodes is left and the new ones are those a mount of the
\* vnode's children gives
ChildrenRebuilt(before, after, vnode) ==
    /\ Range(NidsOf(after.kids)) \cap Range(NidsOf(before.kids)) = {}
    /\ ShapeOf(after.kids) = ShapeOf(ColdMount(<<vnode>>)[1].kids)

\* C13: at a non-keyed level, whenever the number of the host node's
\* existing children differs from the number of children of the new vnode
\* (2 to 3, or any other change, to zero included), patch-in-place discards
\* all old child host nodes and mounts every new child afresh.
C13_CountChangeRebuilds ==
    \A i \in 1..Len(forest) :
        (PatchedPlain(i) /\ Len(preHost[i].kids) # Len(forest[i].children)) =>
            ChildrenRebuilt(preHost[i], host[i], forest[i])

(***************************************************************************)
(* Properties of the TodoApp's todos.                                      *)
(***************************************************************************)
\* C14: addTodo appends exactly one todo {id: the previous nextId, title:
\* the given text, completed: false} to todos and increments nextId by one,
\* leaving every existing todo unchanged; from {todos: [], nextId: 1},
\* adding 'milk' yields {todos: [{id: 1, title: 'milk', completed: false}],
\* nextId: 2}.
C14_AddTodoAppendsTitled ==
    lastOp.op = "addTodo" =>
        /\ heap[stateRef].todos
               = Append(lastOp.before.state.todos,
                        [id |-> lastOp.before.state.nextId, title |-> lastOp.args.text,
                         completed |-> FALSE])
        /\ heap[stateRef].nextId = lastOp.before.state.nextId + 1

(***************************************************************************)
(* Properties of App.init.                                                 *)
(***************************************************************************)
\* C15: when the root selector matches no host node, init reports the
\* error and aborts (the App is not marked initialized, no hashchange
\* listener is registered, no initial route is executed), and the App stays
\* inert: no later setState or render touches a host tree.
C15_MissingRootInert ==
    ~rootExists =>
        /\ rootElement = "null"
        /\ ~isInitialized
        /\ hashListeners = 0
        /\ hash = ""
        /\ pendingHash = 0
        /\ host = <<>>
        /\ nextNid = 1
        /\ PositionsOf("route") = {}
        /\ PositionsOf("render") = {}
        /\ lastOp.op = "init" =>
               /\ log = <<[ev |-> "error"]>>
               /\ reported >= 1
               /\ heap[stateRef] = lastOp.before.state

\* init has reported the missing root, and a later triggering setState
\* with a render function set has merged and run the update callback
C15_Witness ==
    /\ ~rootExists
    /\ reported > 0
    /\ ValidSetState
    /\ lastOp.args.triggerUpdate
    /\ renderFunction # "null"
    /\ PositionsOf("update") # {}
    /\ heap[stateRef] # lastOp.before.state

\* C16: an App has one root element: once init has succeeded the root
\* element stays the same, and a further init() does nothing (no second
\* hashchange listener, no route executed, no render).
C16_OneRoot ==
    /\ isInitialized => (rootElement = "root" /\ hashListeners = 1)
    /\ lastOp.op # "none" =>
           (lastOp.before.root # "null" => rootElement = lastOp.before.root)
    /\ (lastOp.op = "init" /\ lastOp.before.initialized) =>
           /\ log = <<>>
           /\ hashListeners = lastOp.before.hashListeners
           /\ hash = lastOp.before.hash
           /\ pendingHash = lastOp.before.pendingHash
           /\ host = lastOp.before.host
           /\ stateRef = lastOp.before.ref
           /\ heap[stateRef] = lastOp.before.state

\* init was called on an initialised App with a route and a render function
C16_Witness ==
    /\ lastOp.op = "init"
    /\ lastOp.before.initialized
    /\ routes # {}
    /\ renderFunction # "null"
    /\ host # <<>>

(***************************************************************************)
(* Properties of an item in edit mode.                                     *)
(***************************************************************************)
\* every host node of a tree
AllNodes(kids) == Concat([i \in 1..Len(kids) |-> <<kids[i]>> \o Descendants(kids[i])])

\* the identities of the edit inputs in a tree
EditInputs(kids) ==
    {n.nid : n \in {m \in Range(AllNodes(kids)) : IsElement(m) /\ "edit" \in Range(m.cls)}}

\* the identities of the host nodes of a tree that hold node e or are it
AroundOrSelf(kids, e) == {n.nid : n \in {m \in Range(AllNodes(kids)) : e \in Subtree(m)}}

\* the last pass emptied a node holding e, or removed, moved or replaced e
\* or a node holding it, or wrote to e
Disturbed(e) ==
    \E j \in 1..Len(ops) :
        \/ ops[j].op = "clear" /\ e \in Range(ops[j].removed)
        \/ ops[j].op \in {"remove", "move", "replace"}
              /\ ops[j].nid \in AroundOrSelf(preHost, e)
        \/ ops[j].op # "create" /\ ops[j].nid = e

\* the items present in both lists come in the same order
SameOrder(todos, others) ==
    ~(Len(todos) = 2 /\ Len(others) = 2 /\ todos[1].id # others[1].id)

\* the last pass went from the forest of todos to the forest of others,
\* item 5 in edit mode in both
StaysEditing(classKey, todos, others) ==
    /\ passes >= 2
    /\ prevForest = EditForest(classKey, todos)
    /\ forest = EditForest(classKey, others)
    /\ Five(TRUE) \in Range(todos) \cap Range(others)
    /\ SameOrder(todos, others)

\* the edit input is the host node it was, where it was, untouched
EditInputKept ==
    /\ Cardinality(EditInputs(preHost)) = 1
    /\ EditInputs(host) = EditInputs(preHost)
    /\ \A e \in EditInputs(preHost) : ~Disturbed(e)

\* C17 as stated: while a keyed todo item stays in edit mode across a pass
\* caused by any other state change (another item toggled, added, removed
\* or relabelled, the filter changed), its edit input host node is neither
\* replaced, rebuilt nor detached, so it keeps focus.
C17_EditInputKept ==
    \A classKey \in {"className", "class"} :
        \A todos \in EditLists, others \in EditLists :
            StaysEditing(classKey, todos, others) => EditInputKept

\* the operations of the last pass on the host node n or below it
OpsWithin(n) == SelectSeq(ops, LAMBDA o : o.op # "create" /\ o.nid \in Subtree(n))

\* C18 as documented: when the item with data-id 5 goes from class "" to
\* class "editing" (editingId changes from null to 5), the only host
\* mutation on that item is the class write: everything else stays and
\* none of the item's descendant host nodes is destroyed.
C18_EnterEditWritesClassOnly ==
    \A todos \in EditLists :
        \A i \in 1..Len(todos) :
            (EditingFlipped(todos, i) /\ todos[i] = Five(FALSE)) =>
                /\ Len(keyed) = 1
                /\ OpsWithin(keyed[1].before[i])
                       = <<[op |-> "setClass", nid |-> keyed[1].before[i].nid]>>
                /\ Range(NidsOf(keyed[1].before[i].kids))
                       \subseteq Range(NidsOf(keyed[1].after[i].kids))

(***************************************************************************)
(* Properties of the vnode builder.                                        *)
(***************************************************************************)
\* the places of the values one level deep in an argument list: <<i, 0>>
\* for the i-th argument itself when it is no array, <<i, j>> for the j-th
\* entry of the i-th argument when it is one
Slots(children) ==
    UNION {IF children[i].typ = "array"
           THEN {<<i, j>> : j \in 1..Len(children[i].items)}
           ELSE {<<i, 0>>} : i \in 1..Len(children)}

SlotValue(children, slot) ==
    IF slot[2] = 0 THEN children[slot[1]] ELSE children[slot[1]].items[slot[2]]

\* the places holding neither null nor undefined
KeptSlots(children) ==
    {slot \in Slots(children) : SlotValue(children, slot).typ \notin {"null", "undefined"}}

SlotBefore(s, t) == s[1] < t[1] \/ (s[1] = t[1] /\ s[2] < t[2])

\* the position of a kept value among the kept values, in argument order
RankOf(children, slot) ==
    Cardinality({t \in KeptSlots(children) : SlotBefore(t, slot)}) + 1

\* C19: createElement(tag, attrs, ...children) returns for every argument
\* list a vnode {tag, attrs, children}: children is the argument list with
\* exactly one level of arrays removed and every null and undefined entry
\* dropped, the others in their order, and attrs is the empty mapping when
\* attrs is omitted or null (an attrs object is passed on as it is).
C19_BuilderFlattensOnce ==
    given.fn = "createElement" =>
        /\ DOMAIN built = {"typ", "tag", "attrs", "children"}
        /\ built.typ = "object"
        /\ built.tag = given.tag
        /\ given.attrs.typ \in {"undefined", "null"} => built.attrs = <<>>
        /\ given.attrs.typ = "object" => built.attrs = given.attrs.pairs
        /\ Len(built.children) = Cardinality(KeptSlots(given.children))
        /\ \A slot \in KeptSlots(given.children) :
               built.children[RankOf(given.children, slot)]
                   = SlotValue(given.children, slot)

\* createElement('div', null, [['c', null], undefined, 1], null) has
\* returned the children [['c', null], 1] and no attributes
C19_Witness ==
    /\ given.fn = "createElement"
    /\ given.attrs = Null
    /\ given.children = <<Arr(<<Arr(<<Str(<<"c">>), Null>>), Undefined, Num(1)>>), Null>>
    /\ built.children = <<Arr(<<Str(<<"c">>), Null>>), Num(1)>>
    /\ built.attrs = <<>>

(***************************************************************************)
(* Properties of the top-level decision of updateDom.                      *)
(***************************************************************************)
\* the class string a vnode asks for: its className attribute, or the
\* empty string when it has none
AskedClass(vnode) ==
    IF HasAttr(vnode.attrs, "className") THEN Attr(vnode.attrs, "className") ELSE <<>>

\* the pair passes the test: both present, same tag whatever the case,
\* equal class strings
PairPasses(existing, vnode) ==
    /\ vnode.typ = "object"
    /\ toLowerCase(existing.tagName) = toLowerCase(vnode.tag)
    /\ existing.cls = AskedClass(vnode)

\* the host children the last pass found are as many as the forest is long
\* and every index pair passes the test
AllPairsPass ==
    /\ Len(Children(preHost)) = Len(forest)
    /\ \A i \in 1..Len(forest) : PairPasses(Children(preHost)[i], forest[i])

TopNids(kids) == [i \in 1..Len(kids) |-> kids[i].nid]

\* C20: updateDom patches in place if and only if the container has as
\* many host children as the forest is long and every index pair passes the
\* compatibility test; otherwise, even when a single pair fails, it clears
\* the container and mounts every vnode of the forest.  On the patch path
\* every top-level host node stays the node it was; on the rebuild path no
\* host node from before is left.
C20_TopLevelDecision ==
    passes > 0 =>
        /\ (passPath = "patch") <=> AllPairsPass
        /\ (passPath = "rebuild") <=> ~AllPairsPass
        /\ passPath = "patch" =>
               /\ TopNids(host) = TopNids(preHost)
               /\ \A j \in 1..Len(ops) :
                      /\ ~(ops[j].op = "clear" /\ ops[j].nid = 0)
                      /\ ~(ops[j].op \in {"remove", "replace", "move"}
                           /\ ops[j].nid \in Range(TopNids(preHost)))
        /\ passPath = "rebuild" =>
               /\ ops # <<>>
               /\ ops[1] = [op |-> "clear", nid |-> 0, removed |-> NidsOf(preHost)]
               /\ Range(NidsOf(host)) \cap Range(NidsOf(preHost)) = {}
               /\ ShapeOf(host) = ShapeOf(ColdMount(forest))

\* a container holding a div and a span was given a forest of the same
\* length whose first vnode passes the test and whose second is null: the
\* whole forest was rebuilt, the div included
C20_Witness ==
    /\ passes = 2
    /\ passPath = "rebuild"
    /\ Len(preHost) = 2
    /\ Len(forest) = 2
    /\ PairPasses(preHost[1], forest[1])
    /\ forest[2] = Null
    /\ Len(host) = 1
    /\ host[1].nid # preHost[1].nid
    /\ Shape(host[1]) = Shape(preHost[1])

(***************************************************************************)
(* Properties of the class key.                                            *)
(***************************************************************************)
\* every entry of the forest of the last pass is an element vnode
AllElements(f) == \A i \in 1..Len(f) : f[i].typ = "object"

\* the container the last pass found looked like a fresh mount of the
\* forest it was then given
FoundAsMounted ==
    /\ passes > 0
    /\ preHost # <<>>
    /\ AllElements(forest)
    /\ ShapeOf(preHost) = ShapeOf(ColdMount(forest))

\* C21: the class list of a vnode may be given under className or under
\* class, and the compatibility test passes for a host node against the
\* vnode it was mounted from: reconciling a forest into a container that
\* looks like a mount of that forest takes the patch-in-place path.
C21_ClassKeyPatches ==
    FoundAsMounted => passPath = "patch"

(***************************************************************************)
(* Properties of the per-child rule of patch-in-place.                     *)
(***************************************************************************)
\* the top-level node at position i was patched in place, is not the keyed
\* list, and its children were compared index by index: the vnode's
\* children are not one single string and are as many as the host node's
\* element children
ChildByChild(i) ==
    /\ PatchedPlain(i)
    /\ Len(forest[i].children) > 0
    /\ ~(Len(forest[i].children) = 1 /\ forest[i].children[1].typ = "string")
    /\ Len(Children(preHost[i].kids)) = Len(forest[i].children)

\* the host child and the child vnode at the same index do not go together:
\* the vnode is a text leaf or has another tag
Mismatch(existingChild, childVNode) ==
    \/ childVNode.typ # "object"
    \/ toLowerCase(existingChild.tagName) # toLowerCase(childVNode.tag)

\* the operations of the last pass that replace the node of identity nid
ReplacesOf(nid) == {j \in 1..Len(ops) : ops[j].op = "replace" /\ ops[j].nid = nid}

\* the child e of the node before stands at position pos; after the pass a
\* freshly created node mounted from the vnode v stands there and e is gone
ReplacedBy(before, after, pos, e, v) ==
    /\ Cardinality(ReplacesOf(e.nid)) = 1
    /\ e.nid \notin Range(NidsOf(after.kids))
    /\ after.kids[pos].nid \notin Range(NidsOf(before.kids))
    /\ Shape(after.kids[pos]) = Shape(createRealNode(v, NewCtx(1)).el)

\* the child e was kept: the same node at the same position, never replaced
KeptAt(after, pos, e) ==
    /\ ReplacesOf(e.nid) = {}
    /\ after.kids[pos].nid = e.nid

\* the rule at the j-th child of the top-level node i
ChildRule(i, j) ==
    LET e == Children(preHost[i].kids)[j]
        v == forest[i].children[j]
        pos == IndexOfNid(preHost[i].kids, e.nid)
    IN  IF Mismatch(e, v)
        THEN ReplacedBy(preHost[i], host[i], pos, e, v)
        ELSE KeptAt(host[i], pos, e)

\* C22: when the host node has as many element children as the new vnode
\* has children, each child whose vnode is a text leaf or has another tag
\* is replaced by a fresh mount of its vnode, once, and no other; each child
\* whose tag matches stays the node it was, at its place; the parent is not
\* emptied and its child list keeps its length.
C22_PerChildRule ==
    \A i \in 1..Len(forest) :
        ChildByChild(i) =>
            /\ Len(host[i].kids) = Len(preHost[i].kids)
            /\ \A j \in 1..Len(ops) : ~(ops[j].op = "clear" /\ ops[j].nid = preHost[i].nid)
            /\ \A j \in 1..Len(forest[i].children) : ChildRule(i, j)
            /\ Cardinality({j \in 1..Len(ops) : ops[j].op = "replace"}) =
                   Cardinality({j \in 1..Len(forest[i].children) :
                                   Mismatch(Children(preHost[i].kids)[j],
                                            forest[i].children[j])})

\* a div holding two spans was given the vnode of a span and a p: the first
\* span is the node it was, the second span was replaced by a p
C22_Witness ==
    /\ passes = 2
    /\ ChildByChild(1)
    /\ Len(preHost[1].kids) = 2
    /\ preHost[1].kids[2].tagName = "SPAN"
    /\ host[1].kids[1].nid = preHost[1].kids[1].nid
    /\ IsElement(host[1].kids[2])
    /\ host[1].kids[2].tagName = "P"
    /\ host[1].kids[2].nid # preHost[1].kids[2].nid
    /\ Cardinality({j \in 1..Len(ops) : ops[j].op = "replace"}) = 1

(***************************************************************************)
(* Properties of the content-only patch of a keyed item.                   *)
(***************************************************************************)
\* the element vnodes of a subtree in document order, the vnode itself first
RECURSIVE VElements(_)
VElements(vnode) ==
    IF vnode.typ = "object"
    THEN <<vnode>> \o Concat([i \in 1..Len(vnode.children) |-> VElements(vnode.children[i])])
    ELSE <<>>

IsVLabel(v) == v.tag = "label"

IsVCheckbox(v) ==
    v.tag = "input" /\ HasAttr(v.attrs, "type") /\ Attr(v.attrs, "type") = "checkbox"

\* the text the label vnode of an item holds
VLabelText(vli) ==
    Concat([i \in 1..Len(SelectSeq(VElements(vli), IsVLabel)[1].children) |->
               ToText(SelectSeq(VElements(vli), IsVLabel)[1].children[i])])

\* the checked value the checkbox vnode of an item carries
VChecked(vli) == Attr(SelectSeq(VElements(vli), IsVCheckbox)[1].attrs, "checked")

\* the element identities of a host subtree in document order
ElementNids(n) == [i \in 1..Len(SelectSeq(<<n>> \o Descendants(n), IsElement)) |->
                      SelectSeq(<<n>> \o Descendants(n), IsElement)[i].nid]

\* the positions of the keyed call k whose item was in the list before, is
\* in the new forest, and keeps its editing flag
ContentPatched(k) ==
    {i \in 1..Len(k.new) :
        /\ VKeyed(k.new[i])
        /\ HoldersOf(k.before, Attr(k.new[i].attrs, "data-id")) # {}
        /\ \A n \in HoldersOf(k.before, Attr(k.new[i].attrs, "data-id")) :
               includesEditing(k.before[IndexOfNid(k.before, n)].cls)
                   = includesEditing(ClassNameOrEmpty(k.new[i]))}

\* the item of identity n, before and after the call k, against its vnode:
\* the same elements in the same order, the label showing the vnode's label
\* text and the toggle checked as the vnode's checkbox says
ContentCurrent(k, n, vli) ==
    LET old == k.before[IndexOfNid(k.before, n)]
        new == k.after[IndexOfNid(k.after, n)]
    IN  /\ IndexOfNid(k.after, n) # 0
        /\ ElementNids(new) = ElementNids(old)
        /\ QueryLabel(new) # <<>> => textContent(QueryLabel(new)[1]) = VLabelText(vli)
        /\ QueryToggle(new) # <<>> => QueryToggle(new)[1].checked = VChecked(vli)

\* C23: the content-only patch of a keyed item that is in both renders and
\* keeps its editing flag leaves the item's elements the nodes they were
\* and makes its content current: the host label's text is the label text
\* of the new vnode and the host toggle is checked as the checkbox vnode
\* says, wherever that checkbox sits in the item's vnode.
C23_ContentMadeCurrent ==
    \A j \in 1..Len(keyed) :
        \A i \in ContentPatched(keyed[j]) :
            \A n \in HoldersOf(keyed[j].before, Attr(keyed[j].new[i].attrs, "data-id")) :
                ContentCurrent(keyed[j], n, keyed[j].new[i])

(***************************************************************************)
(* Properties of the items without a key.                                  *)
(***************************************************************************)
\* the children of a keyed list that carry no key
Unkeyed(kids) == {n \in Range(kids) : ~(IsElement(n) /\ HostKeyed(n))}

\* the keys the children of a keyed list carry
HostKeys(kids) == {n.attrs["data-id"] : n \in {m \in Range(Children(kids)) : HostKeyed(m)}}

\* the children after the call k that were not children before it
Arrived(k) == {n \in Range(k.after) : n.nid \notin Range(TopNids(k.before))}

\* C24: the keyed-list patcher ignores items without a key.  A child of the
\* new forest that has no key never makes a host node: the nodes a call adds
\* to the list are exactly one for each new key the list did not hold.  A
\* host child that has no key is never updated and never removed: it is in
\* the list after the call, the node it was with the subtree it had.
C24_UnkeyedIgnored ==
    \A j \in 1..Len(keyed) :
        /\ \A n \in Arrived(keyed[j]) :
               /\ IsElement(n) /\ HostKeyed(n)
               /\ n.attrs["data-id"] \in NewKeys(keyed[j].new) \ HostKeys(keyed[j].before)
        /\ Cardinality(Arrived(keyed[j])) =
               Cardinality(NewKeys(keyed[j].new) \ HostKeys(keyed[j].before))
        /\ Unkeyed(keyed[j].before) \subseteq Range(keyed[j].after)
        /\ Len(keyed[j].after) =
               Cardinality(Unkeyed(keyed[j].before)) + Cardinality(NewKeys(keyed[j].new))

\* a list holding an item without a key was patched with a forest holding
\* an item without a key, and the patch moved a keyed item meanwhile
C24_Witness ==
    /\ passes = 2
    /\ Len(keyed) = 1
    /\ Unkeyed(keyed[1].before) # {}
    /\ \E i \in 1..Len(keyed[1].new) : ~VKeyed(keyed[1].new[i])
    /\ \E j \in 1..Len(ops) : ops[j].op = "move"
    /\ Unkeyed(keyed[1].before) = Unkeyed(keyed[1].after)

(***************************************************************************)
(* Properties of the reconciler on structurally unexpected vnodes.         *)
(***************************************************************************)
\* the forest has an entry that is no element vnode with a tag: an object
\* without tag or a bare string
Malformed(f) == \E i \in 1..Len(f) : Truthy(f[i]) /\ ~HasTag(f[i])

\* C25: reconciliation never raises for structurally unexpected vnodes.
\* Whatever the forest (extra or missing attributes, no children, a missing
\* tag), the pass ends on the patch path or on the rebuild path, and a
\* forest with an entry that has no tag is found incompatible and rebuilt,
\* the entry being handed to mount.
C25_CompatNeverRaises ==
    passes > 0 =>
        /\ passPath \in {"patch", "rebuild"}
        /\ Malformed(forest) => passPath = "rebuild"

(***************************************************************************)
(* Properties of the attribute step of patch-in-place.                     *)
(***************************************************************************)
\* the attributes the host node carried that the vnode does not name
Unnamed(el, vnode) == {key \in DOMAIN el.attrs : ~HasAttr(vnode.attrs, key)}

\* C26: patch-in-place never removes attributes.  An attribute the host
\* node carried before the patch and that the new vnode's attrs do not name
\* is on the node after the patch, with the value it had; so is the class
\* of a node whose vnode names no className.
C26_AttributesNeverRemoved ==
    \A i \in 1..Len(forest) :
        PatchedPlain(i) =>
            /\ host[i].nid = preHost[i].nid
            /\ \A key \in Unnamed(preHost[i], forest[i]) :
                   /\ key \in DOMAIN host[i].attrs
                   /\ host[i].attrs[key] = preHost[i].attrs[key]
            /\ ~HasAttr(forest[i].attrs, "className") => host[i].cls = preHost[i].cls

\* a div mounted with the attribute id was patched with a vnode that names
\* a className only and another text: the text was written, the id is there
C26_Witness ==
    /\ passes = 2
    /\ PatchedPlain(1)
    /\ "id" \in Unnamed(preHost[1], forest[1])
    /\ host[1].attrs["id"] = "x"
    /\ ops # <<>>

(***************************************************************************)
(* Properties of the event bindings.                                       *)
(***************************************************************************)
\* the element nodes of a host tree
Elements(kids) == {n \in Range(AllNodes(kids)) : IsElement(n)}

\* the event callbacks a vnode carries, in the order of its attrs
Callbacks(vnode) ==
    [i \in 1..Len(SelectSeq(vnode.attrs,
                            LAMBDA a : startsWithOn(a[1]) /\ a[2].typ = "function")) |->
        <<SelectSeq(vnode.attrs,
                    LAMBDA a : startsWithOn(a[1]) /\ a[2].typ = "function")[i][1],
          SelectSeq(vnode.attrs,
                    LAMBDA a : startsWithOn(a[1]) /\ a[2].typ = "function")[i][2].name>>]

\* C27: patch-in-place never rebinds events.  Every host node that is in
\* the tree before and after a pass has after it the listeners it had
\* before it, whatever callbacks the new vnode carries; listeners are bound
\* by mount only: a top-level node mounted by a pass has the callbacks of
\* its vnode and no other.
C27_ListenersBoundByMountOnly ==
    /\ \A n \in Elements(host) :
           \A m \in Elements(preHost) :
               n.nid = m.nid => n.listeners = m.listeners
    /\ passPath = "rebuild" =>
           \A i \in 1..Len(host) :
               IsElement(host[i]) =>
                   host[i].listeners = Callbacks(SelectSeq(forest, Truthy)[i])

\* a div mounted with the click callback first was patched with a vnode
\* carrying the click callback second and another text: the text was
\* written and the node still has the callback first alone
C27_Witness ==
    /\ passes = 2
    /\ passPath = "patch"
    /\ Len(forest) = 1
    /\ Callbacks(forest[1]) = <<<<"onclick", "second">>>>
    /\ host[1].nid = preHost[1].nid
    /\ host[1].listeners = <<<<"onclick", "first">>>>
    /\ ops # <<>>

(***************************************************************************)
(* Properties of the todo identities.                                      *)
(***************************************************************************)
\* the ids of the todos of a state object
IdsOf(state) == {state.todos[i].id : i \in 1..Len(state.todos)}

\* the ids of every todo list the container or a caller ever held
IdsEverUsed == UNION {IdsOf(heap[r]) : r \in 1..Len(heap)}

\* C30: starting from {todos: [], nextId: 1}, after any sequence of addTodo,
\* toggleTodo, deleteTodo, editTodo, toggleAll and clearCompleted the ids of
\* the todos are pairwise distinct and nextId is greater than every id of
\* the todos and than every id ever given (an id is not given again after
\* its todo was deleted), so the keys of the rendered list, id.toString(),
\* are pairwise distinct.
C30_TodoIdsUnique ==
    /\ \A i, j \in 1..Len(heap[stateRef].todos) :
           i # j =>
               /\ heap[stateRef].todos[i].id # heap[stateRef].todos[j].id
               /\ NumToString(heap[stateRef].todos[i].id)
                      # NumToString(heap[stateRef].todos[j].id)
    /\ \A id \in IdsOf(heap[stateRef]) : id < heap[stateRef].nextId
    /\ \A id \in IdsEverUsed : id < heap[stateRef].nextId

\* two todos were added, the first was deleted and a third added: the list
\* holds the ids 2 and 3 and nextId is 4
C30_Witness ==
    /\ lastOp.op = "addTodo"
    /\ Len(heap[stateRef].todos) = 2
    /\ IdsOf(heap[stateRef]) = {2, 3}
    /\ 1 \in IdsEverUsed
    /\ heap[stateRef].nextId = 4

(***************************************************************************)
(* Failures of the host API and re-entrant render functions.               *)
(***************************************************************************)
\* the last render event of the last operation
LastRender == CHOOSE r \in PositionsOf("render") : \A q \in PositionsOf("render") : q <= r

\* C28: when the host API fails while a pass started by setState mounts or
\* patches, nothing catches the failure and nothing tries again: the failing
\* pass is the last thing the operation does, it ran once, the caller's
\* setState does not return, and the state is the merge of the partials
\* merged before the failure (no rollback).
C28_FailurePropagates ==
    (ValidSetState /\ PositionsOf("throw") # {}) =>
        /\ lastOp.thrown
        /\ Cardinality(PositionsOf("throw")) = 1
        /\ log[Len(log)].ev = "throw"
        /\ log[Len(log) - 1].ev = "render"
        /\ log[Len(log) - 1].call = log[Len(log)].call
        /\ \A c \in Calls : Cardinality(PositionsIn("render", c)) <= 1
        /\ PositionsIn("return", 1) = {}
        /\ Merges[1].partial = lastOp.args.newState.map
        /\ \A j \in 1..Len(Merges) :
               MergedInto(IF j = 1 THEN lastOp.before.state ELSE Merges[j - 1].post,
                          Merges[j].partial, Merges[j].post)
        /\ heap[stateRef] = Merges[Len(Merges)].post
        /\ host = log[Len(log) - 1].host

\* setState({a: 2}) on a rendered App whose render function gives the host
\* an invalid tag when a is 2: the pass emptied the container, mounted the
\* first vnode and failed on the second; the state holds a = 2 and the host
\* tree is neither the one before the call nor the one of the new state
C28_Witness ==
    /\ ValidSetState
    /\ lastOp.thrown
    /\ lastOp.before.initialized
    /\ renderFunction = "renderBroken"
    /\ Len(lastOp.before.host) = 2
    /\ ~("a" \in DOMAIN lastOp.before.state /\ lastOp.before.state.a = 2)
    /\ heap[stateRef].a = 2
    /\ Len(host) = 1
    /\ host # lastOp.before.host

\* C29: for an initialised App with a render function, when the caller's
\* triggering setState has returned, whether or not a listener or the render
\* function called setState during the pass, the forest reconciled last is
\* the one the render function gives for the state the container holds, and
\* the host tree is the one that pass left.
C29_QuiescentCurrent ==
    (/\ ValidSetState
     /\ lastOp.args.triggerUpdate
     /\ isInitialized
     /\ renderFunction # "null"
     /\ ~lastOp.thrown) =>
        /\ PositionsOf("render") # {}
        /\ log[LastRender].forest = Vdom(renderFunction, heap[stateRef], heap[stateRef])
        /\ log[LastRender].host = host

====
